---- MODULE Spec2Model ----
(***************************************************************************)
(* A model of package aoapi (z0rr0/aoapi): the closed-vocabulary string    *)
(* types Role, Model and FinishReason with their JSON codecs (types.go),   *)
(* the request models CompletionRequest and ImageRequest, the response     *)
(* decoders, the error decoder ResponseError.build and the transport       *)
(* orchestrator commonRequest (common.go), composed by the public entry    *)
(* points Completion and Image.                                            *)
(*                                                                         *)
(* Go strings and []byte are TLA+ strings; a Go error is a record          *)
(*   [msg   : the text Error() returns,                                    *)
(*    is    : the sentinel errors errors.Is finds in its chain,            *)
(*    chain : the Error() text of every error reachable by Unwrap].        *)
(***************************************************************************)
EXTENDS Integers, Sequences, FiniteSets, TLC

(***************************************************************************)
(* Bounds of the model.                                                    *)
(***************************************************************************)
\* longest Messages slice of a CompletionRequest
MaxMessages == 2
\* longest "choices" / "data" array of a response body
MaxItems == 2
\* the number of calls that run concurrently
MaxCalls == 2

(***************************************************************************)
(* Strings.                                                                *)
(***************************************************************************)
\* strings.HasPrefix
HasPrefix(s, p) == Len(p) <= Len(s) /\ SubSeq(s, 1, Len(p)) = p

\* strings.HasSuffix
HasSuffix(s, p) == Len(p) <= Len(s) /\ SubSeq(s, Len(s) - Len(p) + 1, Len(s)) = p

\* the i-th byte of s, as a string of length one
CharAt(s, i) == SubSeq(s, i, i)

\* strconv.Quote on one character: what fmt's %q writes for it
QuoteChar(c) ==
    IF c = "\"" THEN "\\\""
    ELSE IF c = "\\" THEN "\\\\"
    ELSE IF c = "\n" THEN "\\n"
    ELSE IF c = "\t" THEN "\\t"
    ELSE c

RECURSIVE QuoteFrom(_, _)
QuoteFrom(s, i) ==
    IF i > Len(s) THEN "" ELSE QuoteChar(CharAt(s, i)) \o QuoteFrom(s, i + 1)

\* fmt's %q verb on a string: a double-quoted Go string literal
Quote(s) == "\"" \o QuoteFrom(s, 1) \o "\""

(***************************************************************************)
(* Errors.                                                                 *)
(***************************************************************************)
\* errors.New(text) for a package-level sentinel
Sentinel(name, text) == [msg |-> text, is |-> {name}, chain |-> {text}]

\* fmt.Errorf(text) with no %w verb
Errorf(text) == [msg |-> text, is |-> {}, chain |-> {text}]

\* fmt.Errorf(prefix + "%w", e)
Wrapf(prefix, e) ==
    [msg |-> prefix \o e.msg, is |-> e.is, chain |-> {prefix \o e.msg} \cup e.chain]

\* errors.Join(a, b) of two non-nil errors: the messages joined by a newline
Join(a, b) ==
    [msg   |-> a.msg \o "\n" \o b.msg,
     is    |-> a.is \cup b.is,
     chain |-> {a.msg \o "\n" \o b.msg} \cup a.chain \cup b.chain]

\* errors.Is(e, target) for a sentinel target
Is(e, target) == \E n \in target.is : n \in e.is

\* the nil error
Nil == [msg |-> "", is |-> {}, chain |-> {}]

ErrRequiredParam == Sentinel("ErrRequiredParam", "required parameter is missing")
ErrResponse == Sentinel("ErrResponse", "failed response")
ErrMarshalJSON == Sentinel("ErrMarshalJSON", "failed JSON marshal")
ErrUnmarshalJSON == Sentinel("ErrUnmarshalJSON", "failed JSON unmarshal")

(***************************************************************************)
(* encoding/json on a Go string.                                           *)
(***************************************************************************)
\* json.Marshal's escaping of one character of a string (HTML-safe mode)
JSONEscapeChar(c) ==
    IF c = "\"" THEN "\\\""
    ELSE IF c = "\\" THEN "\\\\"
    ELSE IF c = "\n" THEN "\\n"
    ELSE IF c = "\t" THEN "\\t"
    ELSE IF c = "<" THEN "\\u003c"
    ELSE IF c = ">" THEN "\\u003e"
    ELSE IF c = "&" THEN "\\u0026"
    ELSE c

RECURSIVE JSONEscapeFrom(_, _)
JSONEscapeFrom(s, i) ==
    IF i > Len(s) THEN "" ELSE JSONEscapeChar(CharAt(s, i)) \o JSONEscapeFrom(s, i + 1)

\* json.Marshal(string(v)): the JSON string token of v
JSONMarshalString(s) == "\"" \o JSONEscapeFrom(s, 1) \o "\""

IsSpace(c) == c \in {" ", "\t", "\n", "\r"}

RECURSIVE TrimLeft(_)
TrimLeft(s) ==
    IF Len(s) > 0 /\ IsSpace(CharAt(s, 1)) THEN TrimLeft(SubSeq(s, 2, Len(s))) ELSE s

RECURSIVE TrimRight(_)
TrimRight(s) ==
    IF Len(s) > 0 /\ IsSpace(CharAt(s, Len(s)))
    THEN TrimRight(SubSeq(s, 1, Len(s) - 1)) ELSE s

\* the JSON scanner skips white space around the one value of the input
TrimSpace(s) == TrimLeft(TrimRight(s))

\* the characters \uXXXX escapes of the modelled inputs stand for
UnicodeEscape(hex) ==
    IF hex = "0073" THEN "s"
    ELSE IF hex = "003c" THEN "<"
    ELSE IF hex = "003e" THEN ">"
    ELSE IF hex = "0026" THEN "&"
    ELSE "?"

\* The inside of a JSON string token, unescaped from position i on:
\* [ok |-> FALSE] when it holds a raw quote, a raw control character or a bad
\* escape, else [ok |-> TRUE, s |-> the text].
RECURSIVE JSONUnquoteFrom(_, _)
JSONUnquoteFrom(t, i) ==
    IF i > Len(t) THEN [ok |-> TRUE, s |-> ""]
    ELSE LET c == CharAt(t, i) IN
         IF c = "\"" \/ c = "\n" \/ c = "\t" \/ c = "\r" THEN [ok |-> FALSE, s |-> ""]
         ELSE IF c # "\\" THEN
              LET rest == JSONUnquoteFrom(t, i + 1)
              IN  [ok |-> rest.ok, s |-> c \o rest.s]
         ELSE IF i + 1 > Len(t) THEN [ok |-> FALSE, s |-> ""]
         ELSE LET e == CharAt(t, i + 1) IN
              IF e = "u" THEN
                  IF i + 5 > Len(t) THEN [ok |-> FALSE, s |-> ""]
                  ELSE LET rest == JSONUnquoteFrom(t, i + 6)
                       IN  [ok |-> rest.ok,
                            s  |-> UnicodeEscape(SubSeq(t, i + 2, i + 5)) \o rest.s]
              ELSE IF e \in {"\"", "\\", "/", "n", "t"} THEN
                  LET rest == JSONUnquoteFrom(t, i + 2)
                      d == IF e = "n" THEN "\n" ELSE IF e = "t" THEN "\t" ELSE e
                  IN  [ok |-> rest.ok, s |-> d \o rest.s]
              ELSE [ok |-> FALSE, s |-> ""]

\* json.Unmarshal(b, &s) for a string s that starts empty: a string token
\* stores its unescaped text, the literal null stores nothing and succeeds,
\* every other input (another token, no token, broken syntax) is an error.
JSONUnmarshalString(b) ==
    LET t == TrimSpace(b) IN
    IF t = "null" THEN [ok |-> TRUE, s |-> ""]
    ELSE IF Len(t) >= 2 /\ CharAt(t, 1) = "\"" /\ CharAt(t, Len(t)) = "\""
         THEN JSONUnquoteFrom(SubSeq(t, 2, Len(t) - 1), 1)
         ELSE [ok |-> FALSE, s |-> ""]

(***************************************************************************)
(* Closed-vocabulary string types (types.go).                              *)
(***************************************************************************)
RoleSystem == "system"
RoleUser == "user"
RoleAssistant == "assistant"

ModelDalle2 == "dall-e-2"
ModelDalle3 == "dall-e-3"
ModelGPT35Turbo == "gpt-3.5-turbo"
ModelGPT4 == "gpt-4"
ModelGPT4Turbo == "gpt-4-turbo"
ModelGPT4o == "gpt-4o"
ModelGPT4oTurbo == "gpt-4o-turbo"
ModelGPT4oMini == "gpt-4o-mini"
ModelGPT41 == "gpt-4.1"
ModelGPT41Mini == "gpt-4.1-mini"
ModelGPT41Nano == "gpt-4.1-nano"
ModelGPT45Preview == "gpt-4.5-preview"
ModelGPTo1 == "o1"
ModelGPTo1Mini == "o1-mini"
ModelGPTo1Preview == "o1-preview"
ModelGPTo1Pro == "o1-pro"
ModelGPTo3Mini == "o3-mini"
ModelDeepSeekChat == "deepseek-chat"
ModelDeepSeekReasoner == "deepseek-reasoner"
\* a key of TokenLimits whose declaration is in no source file at hand
ModelCodexMiniLatest == "codex-mini-latest"

FinishReasonLength == "length"
FinishReasonStop == "stop"

\* the constants declared for each type: its vocabulary
RoleConsts == {RoleSystem, RoleUser, RoleAssistant}

ModelConsts ==
    {ModelDalle2, ModelDalle3, ModelGPT35Turbo, ModelGPT4, ModelGPT4Turbo, ModelGPT4o,
     ModelGPT4oTurbo, ModelGPT4oMini, ModelGPT41, ModelGPT41Mini, ModelGPT41Nano,
     ModelGPT45Preview, ModelGPTo1, ModelGPTo1Mini, ModelGPTo1Preview, ModelGPTo1Pro,
     ModelGPTo3Mini, ModelDeepSeekChat, ModelDeepSeekReasoner}

FinishReasonConsts == {FinishReasonLength, FinishReasonStop}

\* marshalJSON with the comparison of the loop dropped: any value is written
marshalJSONUnchecked(v, values) == [ok |-> TRUE, out |-> JSONMarshalString(v), err |-> Nil]

\* marshalJSON[T](t *T, values ...T), v being *t
marshalJSON(v, values) ==
    IF \E i \in 1..Len(values) : v = values[i]
    THEN [ok |-> TRUE, out |-> JSONMarshalString(v), err |-> Nil]
    ELSE [ok |-> FALSE, out |-> "",
          err |-> Join(ErrMarshalJSON, Errorf("invalid value: " \o v))]

\* unMarshalJSON that forgets the last value of the list
unMarshalJSONShort(old, b, values) ==
    LET parsed == JSONUnmarshalString(b) IN
    IF ~parsed.ok
    THEN [ok |-> FALSE, val |-> old,
          err |-> Join(ErrUnmarshalJSON, Errorf("invalid string value: " \o b))]
    ELSE IF \E i \in 1..(Len(values) - 1) : parsed.s = values[i]
         THEN [ok |-> TRUE, val |-> parsed.s, err |-> Nil]
         ELSE [ok |-> FALSE, val |-> old,
               err |-> Join(ErrUnmarshalJSON, Errorf("invalid value: " \o parsed.s))]

\* unMarshalJSON[T](t *T, b []byte, values ...T), old being *t before the
\* call and val being *t after it
unMarshalJSON(old, b, values) ==
    LET parsed == JSONUnmarshalString(b) IN
    IF ~parsed.ok
    THEN [ok |-> FALSE, val |-> old,
          err |-> Join(ErrUnmarshalJSON, Errorf("invalid string value: " \o b))]
    ELSE IF \E i \in 1..Len(values) : parsed.s = values[i]
         THEN [ok |-> TRUE, val |-> parsed.s, err |-> Nil]
         ELSE [ok |-> FALSE, val |-> old,
               err |-> Join(ErrUnmarshalJSON, Errorf("invalid value: " \o parsed.s))]

RoleMarshalJSON(r) == marshalJSON(r, <<RoleSystem, RoleUser, RoleAssistant>>)

RoleUnmarshalJSON(r, b) == unMarshalJSON(r, b, <<RoleSystem, RoleUser, RoleAssistant>>)

\* MarshalJSON of a Model that is a plain string: any value is written
ModelMarshalJSONAny(m) == [ok |-> TRUE, out |-> JSONMarshalString(m), err |-> Nil]

ModelMarshalJSON(m) ==
    marshalJSON(m,
        <<ModelDalle2, ModelDalle3,
          ModelGPT35Turbo, ModelGPT4, ModelGPT4Turbo, ModelGPT4o, ModelGPT4oTurbo,
          ModelGPT4oMini, ModelGPT45Preview,
          ModelGPTo1, ModelGPTo1Pro, ModelGPTo1Mini, ModelGPTo1Preview, ModelGPTo3Mini,
          ModelGPT41, ModelGPT41Mini, ModelGPT41Nano,
          ModelDeepSeekChat, ModelDeepSeekReasoner>>)

ModelUnmarshalJSON(m, b) ==
    unMarshalJSON(m, b,
        <<ModelDalle2, ModelDalle3,
          ModelGPT35Turbo, ModelGPT4, ModelGPT4Turbo, ModelGPT4o, ModelGPT4oTurbo,
          ModelGPT4oMini, ModelGPT45Preview,
          ModelGPTo1, ModelGPTo1Pro, ModelGPTo1Mini, ModelGPTo1Preview, ModelGPTo3Mini,
          ModelGPT41, ModelGPT41Mini, ModelGPT41Nano,
          ModelDeepSeekChat, ModelDeepSeekReasoner>>)

FinishReasonMarshalJSON(f) == marshalJSON(f, <<FinishReasonLength, FinishReasonStop>>)

FinishReasonUnmarshalJSON(f, b) ==
    unMarshalJSON(f, b, <<FinishReasonLength, FinishReasonStop>>)

\* the three types, and the methods of each
Types == {"Role", "Model", "FinishReason"}

MarshalJSON(typ, v) ==
    CASE typ = "Role" -> RoleMarshalJSON(v)
      [] typ = "Model" -> ModelMarshalJSON(v)
      [] typ = "FinishReason" -> FinishReasonMarshalJSON(v)

UnmarshalJSON(typ, old, b) ==
    CASE typ = "Role" -> RoleUnmarshalJSON(old, b)
      [] typ = "Model" -> ModelUnmarshalJSON(old, b)
      [] typ = "FinishReason" -> FinishReasonUnmarshalJSON(old, b)

Consts(typ) ==
    CASE typ = "Role" -> RoleConsts
      [] typ = "Model" -> ModelConsts
      [] typ = "FinishReason" -> FinishReasonConsts

(***************************************************************************)
(* Request models (aoapi.go, image.go).                                    *)
(***************************************************************************)
\* the maximum number of tokens of each model
TokenLimits ==
    (ModelGPT35Turbo :> 4096) @@ (ModelGPT4 :> 8192) @@ (ModelGPT4Turbo :> 4096) @@
    (ModelGPT4o :> 4096) @@ (ModelGPT4oTurbo :> 4096) @@ (ModelGPT4oMini :> 4096) @@
    (ModelGPT41 :> 32768) @@ (ModelGPT41Mini :> 32768) @@ (ModelGPT41Nano :> 32768) @@
    (ModelGPT45Preview :> 16384) @@ (ModelGPTo1 :> 100000) @@ (ModelGPTo1Mini :> 65536) @@
    (ModelGPTo1Preview :> 32768) @@ (ModelGPTo3Mini :> 100000) @@ (ModelGPTo1Pro :> 100000) @@
    (ModelCodexMiniLatest :> 100000) @@ (ModelDeepSeekChat :> 8192) @@
    (ModelDeepSeekReasoner :> 8192)

\* a lookup that gives the models for image generation the highest ceiling
TokenLimitExempt(m) ==
    IF m \in DOMAIN TokenLimits THEN TokenLimits[m]
    ELSE IF m \in {ModelDalle2, ModelDalle3} THEN 100000 ELSE 0

\* TokenLimits[m] as Go evaluates it: the zero value for a missing key
TokenLimit(m) == IF m \in DOMAIN TokenLimits THEN TokenLimits[m] ELSE 0

\* the map of the models for image generation without its last entry
imageModelsShort == {ModelDalle2}

\* all models for image generation
imageModels == {ModelDalle2, ModelDalle3}

\* the error json.Marshal returns when a MarshalJSON method fails
MarshalerError(typ, e) ==
    Wrapf("json: error calling MarshalJSON for type *aoapi." \o typ \o ": ", e)

\* json.Marshal of one Message: role, content and, when not empty, name
MessageJSON(m) ==
    IF m.Name = ""
    THEN ("role" :> RoleMarshalJSON(m.Role).out) @@ ("content" :> m.Content)
    ELSE ("role" :> RoleMarshalJSON(m.Role).out) @@ ("content" :> m.Content) @@
         ("name" :> m.Name)

\* A field of pointer type (*float32, *uint, *bool, *[]string, *map) holds <<>>
\* for nil and <<v>> for the address of v.  A float32 is held as the decimal
\* text json.Marshal writes for it, a []string as a sequence, a map as a function.

\* the struct with every optional field declared by value, none by pointer: a
\* zero written in the literal is the zero an unwritten field holds
CompletionRequestByValue(l) ==
    LET val(f, zero) == IF f = <<>> THEN zero ELSE f[1]
        ptr(f, zero) == IF f = <<zero>> THEN <<>> ELSE f
    IN  [Model |-> l.Model, Messages |-> l.Messages,
         MaxTokens |-> val(l.MaxTokens, 0), User |-> val(l.User, ""),
         Temperature |-> ptr(l.Temperature, "0"), TopP |-> ptr(l.TopP, "0"),
         N |-> ptr(l.N, 0), Stream |-> ptr(l.Stream, FALSE), Stop |-> ptr(l.Stop, <<>>),
         PresencePenalty |-> ptr(l.PresencePenalty, "0"),
         FrequencyPenalty |-> ptr(l.FrequencyPenalty, "0"),
         LogitBias |-> ptr(l.LogitBias, <<>>)]

\* The CompletionRequest value a composite literal denotes.  l tells of every
\* optional field whether the literal writes it (<<v>>) or leaves it out (<<>>):
\* MaxTokens (uint) and User (string) hold v or the zero value of their type,
\* the fields of pointer type hold the address of v or nil.
CompletionRequest(l) ==
    LET val(f, zero) == IF f = <<>> THEN zero ELSE f[1]
    IN  [Model |-> l.Model, Messages |-> l.Messages,
         MaxTokens |-> val(l.MaxTokens, 0), User |-> val(l.User, ""),
         Temperature |-> l.Temperature, TopP |-> l.TopP, N |-> l.N,
         Stream |-> l.Stream, Stop |-> l.Stop,
         PresencePenalty |-> l.PresencePenalty,
         FrequencyPenalty |-> l.FrequencyPenalty, LogitBias |-> l.LogitBias]

\* the omitempty option on a field of value type: the key is left out when the
\* field holds the zero value of its type
OmitEmpty(key, v, zero) == IF v = zero THEN <<>> ELSE (key :> v)

\* a field of pointer type tagged without omitempty: nil is written as null
OmitEmptyPtrNull(key, p) == IF p = <<>> THEN (key :> "null") ELSE (key :> p[1])

\* the omitempty option on a field of pointer type: the key is left out when
\* the pointer is nil, and the pointee is written otherwise, zero or not
OmitEmptyPtr(key, p) == IF p = <<>> THEN <<>> ELSE (key :> p[1])

\* an encoding of the slice from its last element to its first
MessagesJSONReversed(msgs) ==
    [i \in 1..Len(msgs) |-> MessageJSON(msgs[Len(msgs) + 1 - i])]

\* json.Marshal of the []Message of a request: a JSON array, element by element
MessagesJSON(msgs) == [i \in 1..Len(msgs) |-> MessageJSON(msgs[i])]

\* json.Marshal(c) for a *CompletionRequest: the fields in declaration order,
\* the first failing MarshalJSON ending the encoding; the object written is a
\* function from its keys
CompletionRequestJSON(c) ==
    LET model == ModelMarshalJSON(c.Model)
        bad == {i \in 1..Len(c.Messages) : ~RoleMarshalJSON(c.Messages[i].Role).ok}
        first == CHOOSE i \in bad : \A j \in bad : i <= j
    IN  IF ~model.ok
        THEN [ok |-> FALSE, data |-> <<>>, err |-> MarshalerError("Model", model.err)]
        ELSE IF bad # {}
        THEN [ok |-> FALSE, data |-> <<>>,
              err |-> MarshalerError("Role", RoleMarshalJSON(c.Messages[first].Role).err)]
        ELSE [ok |-> TRUE,
              data |-> ("model" :> model.out) @@
                       ("messages" :> MessagesJSON(c.Messages)) @@
                       OmitEmpty("max_tokens", c.MaxTokens, 0) @@
                       OmitEmpty("user", c.User, "") @@
                       OmitEmptyPtr("temperature", c.Temperature) @@
                       OmitEmptyPtr("top_p", c.TopP) @@
                       OmitEmptyPtr("n", c.N) @@
                       OmitEmptyPtr("stream", c.Stream) @@
                       OmitEmptyPtr("stop", c.Stop) @@
                       OmitEmptyPtr("presence_penalty", c.PresencePenalty) @@
                       OmitEmptyPtr("frequency_penalty", c.FrequencyPenalty) @@
                       OmitEmptyPtr("logit_bias", c.LogitBias),
              err |-> Nil]

\* marshal with the check of the messages placed before the check of the model
CompletionRequestMarshalSwapped(c) ==
    IF Len(c.Messages) = 0
    THEN [ok |-> FALSE, data |-> <<>>,
          err |-> Join(ErrRequiredParam, Errorf("messages must not be empty"))]
    ELSE IF c.Model = ""
    THEN [ok |-> FALSE, data |-> <<>>,
          err |-> Join(ErrRequiredParam, Errorf("model must not be empty"))]
    ELSE IF c.MaxTokens > 0 /\ c.MaxTokens > TokenLimit(c.Model)
    THEN [ok |-> FALSE, data |-> <<>>,
          err |-> Join(ErrRequiredParam,
                       Errorf("max tokens limit is " \o ToString(TokenLimit(c.Model))
                              \o ", but gotten " \o ToString(c.MaxTokens)))]
    ELSE LET j == CompletionRequestJSON(c)
         IN  IF ~j.ok
             THEN [ok |-> FALSE, data |-> <<>>,
                   err |-> Wrapf("failed to marshal request: ", j.err)]
             ELSE [ok |-> TRUE, data |-> j.data, err |-> Nil]

\* marshal that refuses MaxTokens equal to the ceiling as well (>= for >)
CompletionRequestMarshalInclusive(c) ==
    IF c.Model = ""
    THEN [ok |-> FALSE, data |-> <<>>,
          err |-> Join(ErrRequiredParam, Errorf("model must not be empty"))]
    ELSE IF Len(c.Messages) = 0
    THEN [ok |-> FALSE, data |-> <<>>,
          err |-> Join(ErrRequiredParam, Errorf("messages must not be empty"))]
    ELSE IF c.MaxTokens > 0 /\ c.MaxTokens >= TokenLimit(c.Model)
    THEN [ok |-> FALSE, data |-> <<>>,
          err |-> Join(ErrRequiredParam,
                       Errorf("max tokens limit is " \o ToString(TokenLimit(c.Model))
                              \o ", but gotten " \o ToString(c.MaxTokens)))]
    ELSE LET j == CompletionRequestJSON(c)
         IN  IF ~j.ok
             THEN [ok |-> FALSE, data |-> <<>>,
                   err |-> Wrapf("failed to marshal request: ", j.err)]
             ELSE [ok |-> TRUE, data |-> j.data, err |-> Nil]

\* (c *CompletionRequest) marshal
CompletionRequestMarshal(c) ==
    IF c.Model = ""
    THEN [ok |-> FALSE, data |-> <<>>,
          err |-> Join(ErrRequiredParam, Errorf("model must not be empty"))]
    ELSE IF Len(c.Messages) = 0
    THEN [ok |-> FALSE, data |-> <<>>,
          err |-> Join(ErrRequiredParam, Errorf("messages must not be empty"))]
    ELSE IF c.MaxTokens > 0 /\ c.MaxTokens > TokenLimit(c.Model)
    THEN [ok |-> FALSE, data |-> <<>>,
          err |-> Join(ErrRequiredParam,
                       Errorf("max tokens limit is " \o ToString(TokenLimit(c.Model))
                              \o ", but gotten " \o ToString(c.MaxTokens)))]
    ELSE LET j == CompletionRequestJSON(c)
         IN  IF ~j.ok
             THEN [ok |-> FALSE, data |-> <<>>,
                   err |-> Wrapf("failed to marshal request: ", j.err)]
             ELSE [ok |-> TRUE, data |-> j.data, err |-> Nil]

ImageSize256 == "256x256"
ImageSize512 == "512x512"
ImageSize1024 == "1024x1024"

\* the constants declared for ImageSize
ImageSizeConsts == {ImageSize256, ImageSize512, ImageSize1024}

\* json.Marshal of an ImageRequest that leaves out a size that is no constant
ImageRequestJSONKnownSizes(i) ==
    ("prompt" :> i.Prompt) @@
    (IF i.N = 0 THEN <<>> ELSE ("n" :> i.N)) @@
    (IF i.Size \notin ImageSizeConsts THEN <<>> ELSE ("size" :> i.Size))

\* json.Marshal(i) for an *ImageRequest: n and size are omitted when zero
ImageRequestJSON(i) ==
    ("prompt" :> i.Prompt) @@
    (IF i.N = 0 THEN <<>> ELSE ("n" :> i.N)) @@
    (IF i.Size = "" THEN <<>> ELSE ("size" :> i.Size))

\* marshal with the check of the prompt left out
ImageRequestMarshalUnchecked(i) == [ok |-> TRUE, data |-> ImageRequestJSON(i), err |-> Nil]

\* (i *ImageRequest) marshal
ImageRequestMarshal(i) ==
    IF i.Prompt = ""
    THEN [ok |-> FALSE, data |-> <<>>,
          err |-> Join(ErrRequiredParam, Errorf("prompt must not be empty"))]
    ELSE [ok |-> TRUE, data |-> ImageRequestJSON(i), err |-> Nil]

\* url.Parse inside http.NewRequestWithContext: nil, or the error
ParseURL(u) ==
    IF u = ":" THEN Errorf("parse \":\": missing protocol scheme") ELSE Nil

LowerLetters == "abcdefghijklmnopqrstuvwxyz"
UpperLetters == "ABCDEFGHIJKLMNOPQRSTUVWXYZ"

\* the letters of from, each mapped to the letter of to at the same position
LetterMap(from, to) ==
    [c \in {CharAt(from, i) : i \in 1..Len(from)} |->
        CharAt(to, CHOOSE i \in 1..Len(from) : CharAt(from, i) = c)]

UpperOf == LetterMap(LowerLetters, UpperLetters)
LowerOf == LetterMap(UpperLetters, LowerLetters)

ToUpper(c) == IF c \in DOMAIN UpperOf THEN UpperOf[c] ELSE c

ToLower(c) == IF c \in DOMAIN LowerOf THEN LowerOf[c] ELSE c

RECURSIVE CanonicalFrom(_, _, _)
CanonicalFrom(s, i, upper) ==
    IF i > Len(s) THEN ""
    ELSE (IF upper THEN ToUpper(CharAt(s, i)) ELSE ToLower(CharAt(s, i)))
         \o CanonicalFrom(s, i + 1, CharAt(s, i) = "-")

\* textproto.CanonicalMIMEHeaderKey, which Header.Set and Header.Get apply to
\* the key: the first letter and every letter after a hyphen in upper case,
\* the others in lower case
CanonicalMIMEHeaderKey(s) == CanonicalFrom(s, 1, TRUE)

\* req.Header.Set(key, value)
HeaderSet(h, key, value) == (CanonicalMIMEHeaderKey(key) :> value) @@ h

\* r.Header.Get(key): "" when the header is not there
HeaderGet(h, key) ==
    IF CanonicalMIMEHeaderKey(key) \in DOMAIN h THEN h[CanonicalMIMEHeaderKey(key)] ELSE ""

\* the headers set without looking at auth.Organization
HeadersAlwaysOrganization(auth) ==
    HeaderSet(HeaderSet(HeaderSet(<<>>, "Content-Type", "application/json"),
                        "Authorization", "Bearer " \o auth.Bearer),
              "OpenAI-Organization", auth.Organization)

\* the headers both build methods set
Headers(auth) ==
    LET h == HeaderSet(HeaderSet(<<>>, "Content-Type", "application/json"),
                       "Authorization", "Bearer " \o auth.Bearer)
    IN  IF auth.Organization # ""
        THEN HeaderSet(h, "OpenAI-Organization", auth.Organization)
        ELSE h

NoRequest == [method |-> "", url |-> "", header |-> <<>>, body |-> <<>>]

\* (c *CompletionRequest) build
CompletionRequestBuild(c, auth) ==
    LET m == CompletionRequestMarshal(c) IN
    IF ~m.ok THEN [ok |-> FALSE, req |-> NoRequest, err |-> m.err]
    ELSE IF ParseURL(auth.URL) # Nil
    THEN [ok |-> FALSE, req |-> NoRequest,
          err |-> Wrapf("failed to create request: ", ParseURL(auth.URL))]
    ELSE [ok |-> TRUE,
          req |-> [method |-> "POST", url |-> auth.URL, header |-> Headers(auth),
                   body |-> m.data],
          err |-> Nil]

\* (i *ImageRequest) build
ImageRequestBuild(i, auth) ==
    LET m == ImageRequestMarshal(i) IN
    IF ~m.ok THEN [ok |-> FALSE, req |-> NoRequest, err |-> m.err]
    ELSE IF ParseURL(auth.URL) # Nil
    THEN [ok |-> FALSE, req |-> NoRequest,
          err |-> Wrapf("failed to create image request: ", ParseURL(auth.URL))]
    ELSE [ok |-> TRUE,
          req |-> [method |-> "POST", url |-> auth.URL, header |-> Headers(auth),
                   body |-> m.data],
          err |-> Nil]

(***************************************************************************)
(* Response decoding (aoapi.go, image.go) and error decoding (common.go).  *)
(*                                                                         *)
(* A response body is                                                      *)
(*   [kind |-> "object", id, object, created, choices, usage, data, error]: *)
(*       a JSON object; an absent key holds the zero value, and the role   *)
(*       and finish_reason of a choice are the raw JSON text of the value  *)
(*       ("" when the key is absent);                                      *)
(*   [kind |-> "null"]      the JSON literal null;                         *)
(*   [kind |-> "malformed"] JSON text cut short;                           *)
(*   [kind |-> "text"]      plain text, as http.Error writes;              *)
(*   [kind |-> "mistyped"]  an object whose created, choices, data and     *)
(*                          error are JSON strings;                        *)
(*   [kind |-> "aborted"]   a body whose read fails, the context being     *)
(*                          cancelled.                                     *)
(***************************************************************************)
\* http.StatusOK
StatusOK == 200

ZeroErrorInfo == [Message |-> "", Type |-> "", Param |-> "", Code |-> ""]

ZeroUsage == [PromptTokens |-> 0, CompletionTokens |-> 0, TotalTokens |-> 0]

\* the error json.Decoder.Decode returns for a body that is no JSON value of
\* the target's shape, and Nil for a body it decodes
JSONDecodeFailure(body, shape, field, gotype) ==
    CASE body.kind = "malformed" -> Errorf("unexpected EOF")
      [] body.kind = "text" ->
            Errorf("invalid character 'e' in literal true (expecting 'r')")
      [] body.kind = "mistyped" ->
            Errorf("json: cannot unmarshal string into Go struct field " \o shape
                   \o "." \o field \o " of type " \o gotype)
      [] body.kind = "aborted" -> Sentinel("context.Canceled", "context canceled")
      [] OTHER -> Nil

\* decoding of a choice whose Index field has lost its tag: it stays zero
DecodeChoiceNoIndex(ch) ==
    LET role == IF ch.role = "" THEN [ok |-> TRUE, val |-> "", err |-> Nil]
                ELSE RoleUnmarshalJSON("", ch.role)
        finish == IF ch.finish = "" THEN [ok |-> TRUE, val |-> "", err |-> Nil]
                  ELSE FinishReasonUnmarshalJSON("", ch.finish)
    IN  [err |-> IF ~role.ok THEN role.err ELSE IF ~finish.ok THEN finish.err ELSE Nil,
         val |-> [Index |-> 0,
                  Message |-> [Role |-> role.val, Content |-> ch.content, Name |-> ""],
                  FinishReason |-> finish.val]]

\* decoding one element of "choices": index, message, finish_reason in turn;
\* a key that is present (null included) goes through UnmarshalJSON
DecodeChoice(ch) ==
    LET role == IF ch.role = "" THEN [ok |-> TRUE, val |-> "", err |-> Nil]
                ELSE RoleUnmarshalJSON("", ch.role)
        finish == IF ch.finish = "" THEN [ok |-> TRUE, val |-> "", err |-> Nil]
                  ELSE FinishReasonUnmarshalJSON("", ch.finish)
    IN  [err |-> IF ~role.ok THEN role.err ELSE IF ~finish.ok THEN finish.err ELSE Nil,
         val |-> [Index |-> ch.index,
                  Message |-> [Role |-> role.val, Content |-> ch.content, Name |-> ""],
                  FinishReason |-> finish.val]]

NoCompletionResponse ==
    [ID |-> "", Object |-> "", Created |-> 0, Choices |-> <<>>, Usage |-> ZeroUsage,
     CreatedTs |-> [sec |-> 0, nsec |-> 0], stopMarker |-> ""]

\* json.NewDecoder(body).Decode(&r) for r *CompletionResponse: the error, whether
\* r itself was set to nil (the JSON literal null stored through &r), and *r
CompletionDecode(body, stopMarker) ==
    LET fail == JSONDecodeFailure(body, "CompletionResponse", "created", "int64")
        empty == [NoCompletionResponse EXCEPT !.stopMarker = stopMarker]
    IN  IF fail # Nil THEN [err |-> fail, nilled |-> FALSE, r |-> empty]
        ELSE IF body.kind = "null" THEN [err |-> Nil, nilled |-> TRUE, r |-> empty]
        ELSE LET dec == [i \in 1..Len(body.choices) |-> DecodeChoice(body.choices[i])]
                 bad == {i \in 1..Len(dec) : dec[i].err # Nil}
                 first == CHOOSE i \in bad : \A j \in bad : i <= j
             IN  IF bad # {}
                 THEN [err |-> dec[first].err, nilled |-> FALSE, r |-> empty]
                 ELSE [err |-> Nil, nilled |-> FALSE,
                       r |-> [ID |-> body.id, Object |-> body.object,
                              Created |-> body.created,
                              Choices |-> [i \in 1..Len(dec) |-> dec[i].val],
                              Usage |-> body.usage,
                              CreatedTs |-> [sec |-> 0, nsec |-> 0],
                              stopMarker |-> stopMarker]]

\* (r *CompletionResponse) build, called on &CompletionResponse{stopMarker}:
\* kind is "ok" (nil error), "err", or "panic" (r.Choices read through a nil r)
CompletionResponseBuild(body, stopMarker) ==
    LET d == CompletionDecode(body, stopMarker) IN
    IF d.err # Nil
    THEN [kind |-> "err", resp |-> NoCompletionResponse,
          err |-> Join(ErrResponse, Wrapf("failed to unmarshal response: ", d.err))]
    ELSE IF d.nilled
    THEN [kind |-> "panic", resp |-> NoCompletionResponse,
          err |-> Errorf("runtime error: invalid memory address or nil pointer dereference")]
    ELSE IF Len(d.r.Choices) = 0
    THEN [kind |-> "err", resp |-> NoCompletionResponse,
          err |-> Join(ErrResponse, Errorf("empty response"))]
    ELSE [kind |-> "ok",
          resp |-> [d.r EXCEPT !.CreatedTs = [sec |-> d.r.Created, nsec |-> 0]],
          err |-> Nil]

\* the loop body of String that writes the marker whatever the finish reason is
ChoiceStringAnyReason(choice, stopMarker) ==
    choice.Message.Content \o (IF stopMarker # "" THEN stopMarker ELSE "")

\* one turn of the loop of String: what it writes to the builder for a choice
ChoiceString(choice, stopMarker) ==
    choice.Message.Content \o
    (IF stopMarker # "" /\ choice.FinishReason = FinishReasonLength THEN stopMarker ELSE "")

RECURSIVE StringFrom(_, _)
StringFrom(r, i) ==
    IF i > Len(r.Choices) THEN ""
    ELSE ChoiceString(r.Choices[i], r.stopMarker) \o StringFrom(r, i + 1)

\* (r *CompletionResponse) String
CompletionResponseString(r) == StringFrom(r, 1)

\* UsageInfo that reports the sum of the two counts as the total
CompletionResponseUsageInfoSummed(r) ==
    "prompt tokens: " \o ToString(r.Usage.PromptTokens)
    \o ", completion tokens: " \o ToString(r.Usage.CompletionTokens)
    \o ", total tokens: " \o ToString(r.Usage.PromptTokens + r.Usage.CompletionTokens)

\* (r *CompletionResponse) UsageInfo
CompletionResponseUsageInfo(r) ==
    "prompt tokens: " \o ToString(r.Usage.PromptTokens)
    \o ", completion tokens: " \o ToString(r.Usage.CompletionTokens)
    \o ", total tokens: " \o ToString(r.Usage.TotalTokens)

NoImageResponse == [Created |-> 0, Data |-> <<>>, CreatedTs |-> [sec |-> 0, nsec |-> 0]]

RECURSIVE ImageStringFrom(_, _)
ImageStringFrom(ir, i) ==
    IF i > Len(ir.Data) THEN ""
    ELSE ToString(i) \o ". " \o ir.Data[i].URL \o "\n" \o ImageStringFrom(ir, i + 1)

\* (ir *ImageResponse) String
ImageResponseString(ir) == ImageStringFrom(ir, 1)

\* build that joins ErrResponse in front of the decode failure, as
\* CompletionResponse.build does
ImageResponseBuildJoined(body) ==
    LET fail == JSONDecodeFailure(body, "ImageResponse", "created", "int64") IN
    IF fail # Nil
    THEN [kind |-> "err", resp |-> NoImageResponse,
          err |-> Join(ErrResponse, Wrapf("failed to unmarshal image response: ", fail))]
    ELSE IF body.kind = "null"
    THEN [kind |-> "panic", resp |-> NoImageResponse,
          err |-> Errorf("runtime error: invalid memory address or nil pointer dereference")]
    ELSE IF Len(body.data) = 0
    THEN [kind |-> "err", resp |-> NoImageResponse,
          err |-> Join(ErrResponse, Errorf("empty image response"))]
    ELSE [kind |-> "ok",
          resp |-> [Created |-> body.created,
                    Data |-> [i \in 1..Len(body.data) |-> [URL |-> body.data[i]]],
                    CreatedTs |-> [sec |-> body.created, nsec |-> 0]],
          err |-> Nil]

\* (ir *ImageResponse) build, called on &ImageResponse{}
ImageResponseBuild(body) ==
    LET fail == JSONDecodeFailure(body, "ImageResponse", "created", "int64") IN
    IF fail # Nil
    THEN [kind |-> "err", resp |-> NoImageResponse,
          err |-> Wrapf("failed to unmarshal image response: ", fail)]
    ELSE IF body.kind = "null"
    THEN [kind |-> "panic", resp |-> NoImageResponse,
          err |-> Errorf("runtime error: invalid memory address or nil pointer dereference")]
    ELSE IF Len(body.data) = 0
    THEN [kind |-> "err", resp |-> NoImageResponse,
          err |-> Join(ErrResponse, Errorf("empty image response"))]
    ELSE [kind |-> "ok",
          resp |-> [Created |-> body.created,
                    Data |-> [i \in 1..Len(body.data) |-> [URL |-> body.data[i]]],
                    CreatedTs |-> [sec |-> body.created, nsec |-> 0]],
          err |-> Nil]

\* Error with the fields written between plain quotes (%s) instead of %q
ResponseErrorErrorUnquoted(E) ==
    "type=\"" \o E.Type \o "\", param=\"" \o E.Param \o "\", code=\"" \o E.Code
    \o "\": " \o E.Message

\* (respErr *ResponseError) Error
ResponseErrorError(E) ==
    "type=" \o Quote(E.Type) \o ", param=" \o Quote(E.Param) \o ", code=" \o Quote(E.Code)
    \o ": " \o E.Message

\* build that returns the decoded error alone, without the status context
ResponseErrorBuildBare(body, statusCode) ==
    LET e == JSONDecodeFailure(body, "ResponseError", "error", "aoapi.ErrorInfo")
        E == IF body.kind = "object" THEN body.error ELSE ZeroErrorInfo
    IN  IF e # Nil THEN Wrapf("failed unmarshal error: ", e)
        ELSE Errorf(ResponseErrorError(E))

\* (respErr *ResponseError) build on &ResponseError{}: the error it returns
\* (the literal null decodes into the struct and changes nothing); it closes
\* the reader once
ResponseErrorBuild(body, statusCode) ==
    LET err == Join(ErrResponse, Errorf("status code " \o ToString(statusCode)))
        e == JSONDecodeFailure(body, "ResponseError", "error", "aoapi.ErrorInfo")
        E == IF body.kind = "object" THEN body.error ELSE ZeroErrorInfo
    IN  IF e # Nil THEN Join(err, Wrapf("failed unmarshal error: ", e))
        ELSE Join(err, Errorf(ResponseErrorError(E)))

(***************************************************************************)
(* Transport orchestrator (common.go) and the state of one call.           *)
(***************************************************************************)
VARIABLES
    pc,        \* "idle", "inflight" (client.Do running), "responded", "returned"
    call,      \* the entry point called, its request and its Params
    httpReq,   \* the *http.Request that build returned
    executed,  \* how many requests the HTTP client was given to execute
    observed,  \* how many requests the server received
    resp,      \* what client.Do returned: a response or a transport error
    common,    \* what commonRequest returned: a body or an error
    decoded,   \* the decoders that ran: "success" (response build), "error"
    closed,    \* how many times the response body was closed
    result,    \* what the entry point returned to its caller
    probe      \* the last direct call of a method, by a test or by the caller

vars == <<pc, call, httpReq, executed, observed, resp, common, decoded, closed, result, probe>>

\* commonRequest that takes every status below 400 for a success
commonRequestBranchLax(r) ==
    IF r.kind = "fail"
    THEN [body |-> FALSE, err |-> Wrapf("failed to send request: ", r.err),
          closes |-> 0, decoded |-> {}]
    ELSE IF r.StatusCode >= 400
    THEN [body |-> FALSE, err |-> ResponseErrorBuild(r.Body, r.StatusCode),
          closes |-> 1, decoded |-> {"error"}]
    ELSE [body |-> TRUE, err |-> Nil, closes |-> 0, decoded |-> {}]

\* commonRequest that formats the failure of client.Do with %v: the text is
\* kept, the chain is cut
commonRequestBranchOpaque(r) ==
    IF r.kind = "fail"
    THEN [body |-> FALSE, err |-> Errorf("failed to send request: " \o r.err.msg),
          closes |-> 0, decoded |-> {}]
    ELSE IF r.StatusCode # StatusOK
    THEN [body |-> FALSE, err |-> ResponseErrorBuild(r.Body, r.StatusCode),
          closes |-> 1, decoded |-> {"error"}]
    ELSE [body |-> TRUE, err |-> Nil, closes |-> 0, decoded |-> {}]

\* commonRequest that closes the body before it returns it to the entry point
commonRequestBranchDoubleClose(r) ==
    IF r.kind = "fail"
    THEN [body |-> FALSE, err |-> Wrapf("failed to send request: ", r.err),
          closes |-> 0, decoded |-> {}]
    ELSE IF r.StatusCode # StatusOK
    THEN [body |-> FALSE, err |-> ResponseErrorBuild(r.Body, r.StatusCode),
          closes |-> 1, decoded |-> {"error"}]
    ELSE [body |-> TRUE, err |-> Nil, closes |-> 1, decoded |-> {}]

\* commonRequest whose error decoder does not close the body it read
commonRequestBranchLeak(r) ==
    IF r.kind = "fail"
    THEN [body |-> FALSE, err |-> Wrapf("failed to send request: ", r.err),
          closes |-> 0, decoded |-> {}]
    ELSE IF r.StatusCode # StatusOK
    THEN [body |-> FALSE, err |-> ResponseErrorBuild(r.Body, r.StatusCode),
          closes |-> 0, decoded |-> {"error"}]
    ELSE [body |-> TRUE, err |-> Nil, closes |-> 0, decoded |-> {}]

\* commonRequest from the return of client.Do on: body tells whether it
\* returns resp.Body (else nil), closes counts the closes of the body so far
commonRequestBranch(r) ==
    IF r.kind = "fail"
    THEN [body |-> FALSE, err |-> Wrapf("failed to send request: ", r.err),
          closes |-> 0, decoded |-> {}]
    ELSE IF r.StatusCode # StatusOK
    THEN [body |-> FALSE, err |-> ResponseErrorBuild(r.Body, r.StatusCode),
          closes |-> 1, decoded |-> {"error"}]
    ELSE [body |-> TRUE, err |-> Nil, closes |-> 0, decoded |-> {}]

(***************************************************************************)
(* The inputs of the model.                                                *)
(***************************************************************************)
SeqsUpTo(S, n) == UNION {[1..k -> S] : k \in 0..n}

RequestModels == {"", ModelGPT35Turbo, ModelGPT4, ModelDalle2, "gpt-5"}

MaxTokensValues == {0, 4096, 8193}

MessageValues ==
    {[Role |-> RoleSystem, Content |-> "This is a system message", Name |-> ""],
     [Role |-> RoleUser, Content |-> "This is a user message", Name |-> "bob"],
     [Role |-> "tool", Content |-> "42", Name |-> ""]}

\* the requests of the calls: literals that write Model, Messages and MaxTokens
CompletionRequests ==
    {CompletionRequest([Model |-> m, Messages |-> msgs, MaxTokens |-> <<t>>,
                        User |-> <<>>, Temperature |-> <<>>, TopP |-> <<>>, N |-> <<>>,
                        Stream |-> <<>>, Stop |-> <<>>, PresencePenalty |-> <<>>,
                        FrequencyPenalty |-> <<>>, LogitBias |-> <<>>]) :
        m \in RequestModels, msgs \in SeqsUpTo(MessageValues, MaxMessages),
        t \in MaxTokensValues}

ImageRequests == [Prompt : {"", "a cat"}, N : {0, 2}, Size : {"", "256x256", "64x64"}]

ParamsValues ==
    {[Bearer |-> "test", Organization |-> "", URL |-> "http://srv/v1", StopMarker |-> ""],
     [Bearer |-> "test", Organization |-> "test-org", URL |-> "http://srv/v1",
      StopMarker |-> " [reason=length]"],
     [Bearer |-> "test", Organization |-> "", URL |-> ":", StopMarker |-> ""]}

Statuses == {200, 201, 400, 502}

ChoiceValues ==
    {[index |-> 0, role |-> "\"assistant\"", content |-> "This is ", finish |-> "\"stop\""],
     [index |-> 1, role |-> "\"assistant\"", content |-> "a message.",
      finish |-> "\"length\""],
     [index |-> 0, role |-> "\"assistant\"", content |-> "Message", finish |-> "null"],
     [index |-> 2, role |-> "\"user\"", content |-> "Message", finish |-> ""],
     [index |-> 0, role |-> "\"bot\"", content |-> "Message", finish |-> "\"stop\""]}

ErrorInfoValues ==
    {[Message |-> "This model's maximum context length is 4097 tokens.",
      Type |-> "invalid_request_error", Param |-> "messages",
      Code |-> "context_length_exceeded"],
     [Message |-> "bad", Type |-> "a\"b", Param |-> "c\\d", Code |-> ""]}

Object(choices, data, error) ==
    [kind |-> "object", id |-> "test", object |-> "chat.completion",
     created |-> 1677652288, choices |-> choices,
     usage |-> [PromptTokens |-> 4, CompletionTokens |-> 6, TotalTokens |-> 10],
     data |-> data, error |-> error]

Bodies ==
    {[kind |-> k] : k \in {"null", "malformed", "text", "mistyped", "aborted"}}
    \cup {Object(c, <<>>, ZeroErrorInfo) : c \in SeqsUpTo(ChoiceValues, MaxItems)}
    \cup {Object(<<>>, d, ZeroErrorInfo) : d \in SeqsUpTo({"u1", "u2"}, MaxItems)}
    \cup {Object(<<>>, <<>>, e) : e \in ErrorInfoValues}
    \cup {[Object(<<c>>, <<>>, ZeroErrorInfo) EXCEPT
              !.usage = [PromptTokens |-> 4, CompletionTokens |-> 6, TotalTokens |-> 11]] :
           c \in {ch \in ChoiceValues : ch.finish = "\"stop\"" /\ ch.role = "\"assistant\""}}

(***************************************************************************)
(* The state machine: one call of Completion or Image.                     *)
(***************************************************************************)
NoCall == [kind |-> "none"]
NoResp == [kind |-> "none"]
NoResult == [kind |-> "none"]
\* the nil *CompletionResponse / *ImageResponse an entry point returns with an error
NilResponse == [nil |-> TRUE]
NoCommon == [returned |-> FALSE]
NoProbe == [op |-> "none"]

Init ==
    /\ pc = "idle"
    /\ call = NoCall
    /\ httpReq = NoRequest
    /\ executed = 0
    /\ observed = 0
    /\ resp = NoResp
    /\ common = NoCommon
    /\ decoded = {}
    /\ closed = 0
    /\ result = NoResult
    /\ probe = NoProbe

\* The call up to client.Do: commonRequest runs cReq.build; a failed build
\* returns its error through commonRequest and the entry point, a built
\* request is handed to the client.
Start(kind, r, p, b) ==
    /\ pc = "idle"
    /\ probe = NoProbe
    /\ call' = [kind |-> kind, req |-> r, params |-> p]
    /\ IF b.ok
       THEN /\ httpReq' = b.req
            /\ executed' = executed + 1
            /\ pc' = "inflight"
            /\ UNCHANGED <<common, result>>
       ELSE /\ common' = [returned |-> TRUE, body |-> FALSE, err |-> b.err]
            /\ result' = [kind |-> "err", resp |-> NilResponse, err |-> b.err]
            /\ pc' = "returned"
            /\ UNCHANGED <<httpReq, executed>>
    /\ UNCHANGED <<observed, resp, decoded, closed, probe>>

\* Completion(ctx, client, r, p), up to client.Do
CallCompletion ==
    /\ pc = "idle"
    /\ \E r \in CompletionRequests, p \in ParamsValues :
          Start("Completion", r, p, CompletionRequestBuild(r, p))

\* Image(ctx, client, i, p), up to client.Do
CallImage ==
    /\ pc = "idle"
    /\ \E i \in ImageRequests, p \in ParamsValues :
          Start("Image", i, p, ImageRequestBuild(i, p))

\* the server receives the request and answers
ServerRespond ==
    /\ pc = "inflight"
    /\ observed' = observed + 1
    /\ \E status \in Statuses, body \in Bodies :
          resp' = [kind |-> "resp", StatusCode |-> status, Body |-> body]
    /\ pc' = "responded"
    /\ UNCHANGED <<call, httpReq, executed, common, decoded, closed, result, probe>>

\* why client.Do fails: the connection is refused, or the context is cancelled
TransportCauses ==
    {Errorf("dial tcp: connect: connection refused"),
     Sentinel("context.Canceled", "context canceled")}

\* a failed client.Do that is tried a second time before the call gives up
TransportFailRetry ==
    /\ pc = "inflight"
    /\ executed' = executed + 1
    /\ resp' = [kind |-> "fail",
                err |-> Wrapf("Post " \o Quote(httpReq.url) \o ": ",
                              Errorf("dial tcp: connect: connection refused"))]
    /\ pc' = "responded"
    /\ UNCHANGED <<call, httpReq, observed, common, decoded, closed, result, probe>>

\* client.Do fails: no connection, or the context is cancelled
TransportFail ==
    /\ pc = "inflight"
    /\ \E cause \in TransportCauses :
          resp' = [kind |-> "fail",
                   err |-> Wrapf("Post " \o Quote(httpReq.url) \o ": ", cause)]
    /\ pc' = "responded"
    /\ UNCHANGED <<call, httpReq, executed, observed, common, decoded, closed, result, probe>>

\* The rest of an entry point once client.Do has returned: commonRequest
\* branches on the status; on an error the entry point returns it; on a body
\* the deferred Close is set up, the response is built from the body, and the
\* body is closed as the entry point returns or panics.  built is what the
\* build of the entry point's response makes of resp.Body.
Finish(kind, built) ==
    /\ pc = "responded"
    /\ call.kind = kind
    /\ LET c == commonRequestBranch(resp) IN
       /\ common' = [returned |-> TRUE, body |-> c.body, err |-> c.err]
       /\ IF ~c.body
          THEN /\ result' = [kind |-> "err", resp |-> NilResponse, err |-> c.err]
               /\ decoded' = c.decoded
               /\ closed' = closed + c.closes
          ELSE /\ result' = IF built.kind = "ok" THEN built
                            ELSE [kind |-> built.kind, resp |-> NilResponse,
                                  err |-> built.err]
               /\ decoded' = c.decoded \cup {"success"}
               /\ closed' = closed + c.closes + 1
    /\ pc' = "returned"
    /\ UNCHANGED <<call, httpReq, executed, observed, resp, probe>>

\* Completion(ctx, client, r, p), from the return of client.Do on
CompletionReturn ==
    Finish("Completion", CompletionResponseBuild(resp.Body, call.params.StopMarker))

\* Image(ctx, client, i, p), from the return of client.Do on
ImageReturn ==
    Finish("Image", ImageResponseBuild(resp.Body))

(***************************************************************************)
(* Direct uses of the MarshalJSON / UnmarshalJSON methods, as the tests of *)
(* types_test.go make them.  An input of UnmarshalJSON is its raw text     *)
(* together with what that text is: the kind of JSON token, and for a      *)
(* string token the text it denotes.                                       *)
(***************************************************************************)
PlainValues ==
    RoleConsts \cup ModelConsts \cup FinishReasonConsts
    \cup {"", "unknown", "System", "STOP", "stop ", ModelCodexMiniLatest}

ProbeValues == PlainValues \cup {"a\"b", "<stop>"}

TokenInputs ==
    {[raw |-> "\"" \o v \o "\"", token |-> "string", content |-> v] : v \in PlainValues}
    \cup {[raw |-> "\"\\u0073top\"", token |-> "string", content |-> "stop"],
          [raw |-> " \"user\"\n", token |-> "string", content |-> "user"],
          [raw |-> "\"st\\\"op\"", token |-> "string", content |-> "st\"op"],
          [raw |-> "null", token |-> "null", content |-> ""],
          [raw |-> "1", token |-> "number", content |-> ""],
          [raw |-> "true", token |-> "bool", content |-> ""],
          [raw |-> "{}", token |-> "object", content |-> ""],
          [raw |-> "[\"stop\"]", token |-> "array", content |-> ""],
          [raw |-> "stop", token |-> "invalid", content |-> ""],
          [raw |-> "\"stop", token |-> "invalid", content |-> ""],
          [raw |-> "", token |-> "invalid", content |-> ""]}

\* t.MarshalJSON() on a variable holding v, in a test of its own
ProbeMarshal ==
    /\ pc = "idle"
    /\ probe = NoProbe
    /\ \E typ \in Types, v \in ProbeValues :
          probe' = [op |-> "marshal", typ |-> typ, v |-> v, res |-> MarshalJSON(typ, v)]
    /\ UNCHANGED <<pc, call, httpReq, executed, observed, resp, common, decoded,
                   closed, result>>

\* t.UnmarshalJSON(b) on a zero variable, in a test of its own
ProbeUnmarshal ==
    /\ pc = "idle"
    /\ probe = NoProbe
    /\ \E typ \in Types, in \in TokenInputs :
          probe' = [op |-> "unmarshal", typ |-> typ, in |-> in,
                    res |-> UnmarshalJSON(typ, "", in.raw)]
    /\ UNCHANGED <<pc, call, httpReq, executed, observed, resp, common, decoded,
                   closed, result>>

\* t.UnmarshalJSON on the bytes the last MarshalJSON returned
ProbeUnmarshalOutput ==
    /\ pc = "idle"
    /\ probe.op = "marshal"
    /\ probe.res.ok
    /\ probe' = [op |-> "roundtrip", typ |-> probe.typ, v |-> probe.v,
                 res |-> UnmarshalJSON(probe.typ, "", probe.res.out)]
    /\ UNCHANGED <<pc, call, httpReq, executed, observed, resp, common, decoded,
                   closed, result>>

\* the literals of the ceiling: each model against token counts at, below and
\* above the ceilings
CeilingLiterals ==
    [Model : {"", ModelGPT35Turbo, ModelGPT4, ModelDalle2, ModelDalle3, "gpt-5"},
     Messages : {<<>>, <<[Role |-> RoleSystem, Content |-> "Hello, world!", Name |-> ""]>>},
     MaxTokens : {<<>>, <<0>>, <<1>>, <<4095>>, <<4096>>, <<4097>>, <<8192>>, <<8193>>},
     User : {<<>>}, Temperature : {<<>>}, TopP : {<<>>}, N : {<<>>}, Stream : {<<>>},
     Stop : {<<>>}, PresencePenalty : {<<>>}, FrequencyPenalty : {<<>>},
     LogitBias : {<<>>}]

\* the literals of the optional fields: each one left out, written with the
\* zero value of its type, or written with the value of the test "with optional"
OptionLiterals ==
    [Model : {ModelGPT4},
     Messages : {<<[Role |-> RoleSystem, Content |-> "This is a system message",
                    Name |-> ""],
                   [Role |-> RoleAssistant, Content |-> "This is an assistant message",
                    Name |-> "assistant"]>>},
     MaxTokens : {<<>>, <<0>>, <<100>>},
     User : {<<>>, <<"">>, <<"test">>},
     Temperature : {<<>>, <<"0">>, <<"0.5">>},
     TopP : {<<>>, <<"0.6">>},
     N : {<<>>, <<0>>, <<10>>},
     Stream : {<<>>, <<FALSE>>, <<TRUE>>},
     Stop : {<<>>, << <<>> >>, << <<"\n\n">> >>},
     PresencePenalty : {<<>>, <<"0.7">>},
     FrequencyPenalty : {<<>>, <<"0">>},
     LogitBias : {<<>>, <<("a" :> "0.9")>>}]

RequestLiterals == CeilingLiterals \cup OptionLiterals

\* request.marshal() on the request a literal denotes
ProbeRequestMarshal ==
    /\ pc = "idle"
    /\ probe = NoProbe
    /\ \E l \in RequestLiterals :
          probe' = [op |-> "request", lit |-> l, req |-> CompletionRequest(l),
                    res |-> CompletionRequestMarshal(CompletionRequest(l))]
    /\ UNCHANGED <<pc, call, httpReq, executed, observed, resp, common, decoded,
                   closed, result>>

\* resp.String() on the response Completion returned
CallString ==
    /\ pc = "returned"
    /\ call.kind = "Completion"
    /\ result.kind = "ok"
    /\ probe = NoProbe
    /\ probe' = [op |-> "String", out |-> CompletionResponseString(result.resp)]
    /\ UNCHANGED <<pc, call, httpReq, executed, observed, resp, common, decoded,
                   closed, result>>

\* resp.UsageInfo() on the response Completion returned
CallUsageInfo ==
    /\ pc = "returned"
    /\ call.kind = "Completion"
    /\ result.kind = "ok"
    /\ probe = NoProbe
    /\ probe' = [op |-> "UsageInfo", out |-> CompletionResponseUsageInfo(result.resp)]
    /\ UNCHANGED <<pc, call, httpReq, executed, observed, resp, common, decoded,
                   closed, result>>

\* response.String() on an ImageResponse literal
ProbeImageString ==
    /\ pc = "idle"
    /\ probe = NoProbe
    /\ \E urls \in SeqsUpTo({"https://127.0.0.1/test1", "https://127.0.0.1/test2"},
                             MaxItems) :
          LET ir == [NoImageResponse EXCEPT
                        !.Data = [i \in 1..Len(urls) |-> [URL |-> urls[i]]]]
          IN  probe' = [op |-> "ImageString", ir |-> ir, out |-> ImageResponseString(ir)]
    /\ UNCHANGED <<pc, call, httpReq, executed, observed, resp, common, decoded,
                   closed, result>>

Next ==
    \/ CallCompletion
    \/ CallImage
    \/ ServerRespond
    \/ TransportFail
    \/ CompletionReturn
    \/ ImageReturn
    \/ ProbeMarshal
    \/ ProbeUnmarshal
    \/ ProbeUnmarshalOutput
    \/ ProbeRequestMarshal
    \/ CallString
    \/ CallUsageInfo
    \/ ProbeImageString

Spec == Init /\ [][Next]_vars

(***************************************************************************)
(* Concurrent calls.  The caller runs MaxCalls calls of Completion / Image *)
(* in goroutines of its own, all with one http.Client.  Every variable is  *)
(* here a function of the call: pc[i], call[i], httpReq[i], resp[i] and so *)
(* on are the parameters and local variables of call i, as the variables   *)
(* of the same names are for the one call above.  The servers are those a  *)
(* test starts with httptest.NewServer: the URL of a request decides what  *)
(* the client gets for it.                                                  *)
(***************************************************************************)
CallIds == 1..MaxCalls

\* what client.Do returns for a request to this URL
Serve(url) ==
    CASE url = "http://chat/v1" ->
            [kind |-> "resp", StatusCode |-> 200,
             Body |-> Object(<<[index |-> 0, role |-> "\"assistant\"",
                                content |-> "Message", finish |-> "\"length\""]>>,
                             <<>>, ZeroErrorInfo)]
      [] url = "http://images/v1" ->
            [kind |-> "resp", StatusCode |-> 200,
             Body |-> Object(<<>>, <<"https://127.0.0.1/test1">>, ZeroErrorInfo)]
      [] url = "http://failed/v1" ->
            [kind |-> "resp", StatusCode |-> 400,
             Body |-> Object(<<>>, <<>>,
                             [Message |-> "bad", Type |-> "invalid_request_error",
                              Param |-> "", Code |-> ""])]
      [] OTHER ->
            [kind |-> "fail",
             err |-> Wrapf("Post " \o Quote(url) \o ": ",
                           Errorf("dial tcp: connect: connection refused"))]

ConcurrentParams ==
    {[Bearer |-> "test", Organization |-> "", URL |-> u, StopMarker |-> "..."] :
        u \in {"http://chat/v1", "http://images/v1", "http://failed/v1",
               "http://127.0.0.1:1"}}

ConcurrentInputs ==
    {[kind |-> "Completion", req |-> r, params |-> p] :
        r \in {c \in CompletionRequests :
                  /\ c.Model \in {"", ModelGPT35Turbo}
                  /\ c.MaxTokens = 0
                  /\ c.Messages = <<[Role |-> RoleSystem,
                                     Content |-> "This is a system message",
                                     Name |-> ""]>>},
        p \in ConcurrentParams}
    \cup {[kind |-> "Image", req |-> r, params |-> p] :
             r \in {i \in ImageRequests : i.N = 0 /\ i.Size = ""},
             p \in ConcurrentParams}

InitConcurrent ==
    /\ pc = [i \in CallIds |-> "idle"]
    /\ call = [i \in CallIds |-> NoCall]
    /\ httpReq = [i \in CallIds |-> NoRequest]
    /\ executed = [i \in CallIds |-> 0]
    /\ observed = [i \in CallIds |-> 0]
    /\ resp = [i \in CallIds |-> NoResp]
    /\ common = [i \in CallIds |-> NoCommon]
    /\ decoded = [i \in CallIds |-> {}]
    /\ closed = [i \in CallIds |-> 0]
    /\ result = [i \in CallIds |-> NoResult]
    /\ probe = NoProbe

\* cReq.build of the request of a call
Build(in) ==
    IF in.kind = "Completion" THEN CompletionRequestBuild(in.req, in.params)
    ELSE ImageRequestBuild(in.req, in.params)

\* the build method of the response of the entry point, on the body
ResponseBuild(in, body) ==
    IF in.kind = "Completion" THEN CompletionResponseBuild(body, in.params.StopMarker)
    ELSE ImageResponseBuild(body)

\* call i enters Completion or Image: commonRequest builds the request
ConcurrentCall(i) ==
    /\ pc[i] = "idle"
    /\ \E in \in ConcurrentInputs :
          LET b == Build(in) IN
          /\ call' = [call EXCEPT ![i] = in]
          /\ IF b.ok
             THEN /\ httpReq' = [httpReq EXCEPT ![i] = b.req]
                  /\ executed' = [executed EXCEPT ![i] = 1]
                  /\ pc' = [pc EXCEPT ![i] = "inflight"]
                  /\ UNCHANGED <<common, result>>
             ELSE /\ common' = [common EXCEPT
                                   ![i] = [returned |-> TRUE, body |-> FALSE, err |-> b.err]]
                  /\ result' = [result EXCEPT
                                   ![i] = [kind |-> "err", resp |-> NilResponse,
                                           err |-> b.err]]
                  /\ pc' = [pc EXCEPT ![i] = "returned"]
                  /\ UNCHANGED <<httpReq, executed>>
    /\ UNCHANGED <<observed, resp, decoded, closed, probe>>

\* resp as a variable of the package, one for all the calls, instead of a
\* local variable of commonRequest
DeliverShared(rs, i, r) == [j \in DOMAIN rs |-> r]

\* resp, err := client.Do(req) in call i: resp is a local variable of the
\* commonRequest of that call
Deliver(rs, i, r) == [rs EXCEPT ![i] = r]

\* client.Do of call i returns
ConcurrentDo(i) ==
    /\ pc[i] = "inflight"
    /\ resp' = Deliver(resp, i, Serve(httpReq[i].url))
    /\ observed' = [observed EXCEPT
                       ![i] = IF Serve(httpReq[i].url).kind = "resp" THEN 1 ELSE 0]
    /\ pc' = [pc EXCEPT ![i] = "responded"]
    /\ UNCHANGED <<call, httpReq, executed, common, decoded, closed, result, probe>>

\* the rest of call i: the branch on the status, the decoding, the return
ConcurrentFinish(i, kind, built) ==
    /\ pc[i] = "responded"
    /\ call[i].kind = kind
    /\ LET c == commonRequestBranch(resp[i]) IN
       /\ common' = [common EXCEPT
                        ![i] = [returned |-> TRUE, body |-> c.body, err |-> c.err]]
       /\ IF ~c.body
          THEN /\ result' = [result EXCEPT
                                ![i] = [kind |-> "err", resp |-> NilResponse,
                                        err |-> c.err]]
               /\ decoded' = [decoded EXCEPT ![i] = c.decoded]
               /\ closed' = [closed EXCEPT ![i] = @ + c.closes]
          ELSE /\ result' = [result EXCEPT
                                ![i] = IF built.kind = "ok" THEN built
                                       ELSE [kind |-> built.kind,
                                             resp |-> NilResponse,
                                             err |-> built.err]]
               /\ decoded' = [decoded EXCEPT ![i] = c.decoded \cup {"success"}]
               /\ closed' = [closed EXCEPT ![i] = @ + c.closes + 1]
    /\ pc' = [pc EXCEPT ![i] = "returned"]
    /\ UNCHANGED <<call, httpReq, executed, observed, resp, probe>>

\* Completion of call i, from the return of client.Do on
ConcurrentCompletionReturn(i) ==
    ConcurrentFinish(i, "Completion",
                     CompletionResponseBuild(resp[i].Body, call[i].params.StopMarker))

\* Image of call i, from the return of client.Do on
ConcurrentImageReturn(i) ==
    ConcurrentFinish(i, "Image", ImageResponseBuild(resp[i].Body))

NextConcurrent ==
    \E i \in CallIds :
        \/ ConcurrentCall(i)
        \/ ConcurrentDo(i)
        \/ ConcurrentCompletionReturn(i)
        \/ ConcurrentImageReturn(i)

SpecConcurrent == InitConcurrent /\ [][NextConcurrent]_vars

(***************************************************************************)
(* Properties.                                                             *)
(***************************************************************************)
Returned == pc = "returned"

\* the call returned (nil, err)
Failed == result.kind = "err" /\ result.resp = NilResponse /\ result.err # Nil

\* the server answered with this status and a body of one of these kinds
Answered(statuses, kinds) ==
    /\ Returned
    /\ resp.kind = "resp"
    /\ resp.StatusCode \in statuses
    /\ resp.Body.kind \in kinds

\* C1: CompletionRequest.marshal validates in a fixed order and the first
\* failure wins: an empty Model fails with "model must not be empty" whatever
\* Messages and MaxTokens are; otherwise empty Messages fail with "messages
\* must not be empty" whatever MaxTokens is; otherwise MaxTokens over the
\* ceiling of the model fails.  Each of these failures matches ErrRequiredParam
\* and no serialized body is produced (no request is built).
C1_ValidationOrder ==
    (Returned /\ call.kind = "Completion") =>
        LET r == call.req IN
        /\ r.Model = "" =>
              /\ Failed
              /\ result.err.msg = "required parameter is missing\nmodel must not be empty"
        /\ (r.Model # "" /\ Len(r.Messages) = 0) =>
              /\ Failed
              /\ result.err.msg = "required parameter is missing\nmessages must not be empty"
        /\ (r.Model # "" /\ Len(r.Messages) > 0 /\ r.MaxTokens > 0
                /\ r.MaxTokens > TokenLimit(r.Model)) =>
              /\ Failed
              /\ HasPrefix(result.err.msg, "required parameter is missing\nmax tokens limit is ")
        /\ (r.Model = "" \/ Len(r.Messages) = 0
                \/ (r.MaxTokens > 0 /\ r.MaxTokens > TokenLimit(r.Model))) =>
              /\ Is(result.err, ErrRequiredParam)
              /\ httpReq = NoRequest

\* C1 witness: an empty Model with messages and MaxTokens over every ceiling
\* fails on the model.
C1_Witness ==
    /\ Returned
    /\ call.kind = "Completion"
    /\ call.req.Model = ""
    /\ Len(call.req.Messages) = 2
    /\ call.req.MaxTokens = 8193
    /\ result.err.msg = "required parameter is missing\nmodel must not be empty"

\* C2: for Role, Model and FinishReason, MarshalJSON succeeds if and only if
\* the value is exactly one of the constants of the type, and otherwise fails
\* with an error matching ErrMarshalJSON; UnmarshalJSON succeeds if and only if
\* the input is a JSON string token whose text is exactly one of the constants,
\* and otherwise fails with an error matching ErrUnmarshalJSON.
C2_ClosedVocabulary ==
    /\ probe.op = "marshal" =>
          /\ probe.res.ok <=> probe.v \in Consts(probe.typ)
          /\ ~probe.res.ok => Is(probe.res.err, ErrMarshalJSON)
    /\ probe.op = "unmarshal" =>
          /\ probe.res.ok <=>
                (probe.in.token = "string" /\ probe.in.content \in Consts(probe.typ))
          /\ probe.res.ok => probe.res.val = probe.in.content
          /\ ~probe.res.ok => Is(probe.res.err, ErrUnmarshalJSON)

\* C2 witness: UnmarshalJSON refuses the token null, which is no string.
C2_Witness ==
    /\ probe.op = "unmarshal"
    /\ probe.typ = "FinishReason"
    /\ probe.in.token = "null"
    /\ ~probe.res.ok
    /\ Is(probe.res.err, ErrUnmarshalJSON)

\* C3: round trip: for every constant v of Role, Model or FinishReason,
\* MarshalJSON(v) succeeds and UnmarshalJSON of its output succeeds and
\* yields exactly v.
C3_RoundTrip ==
    /\ (probe.op = "marshal" /\ probe.v \in Consts(probe.typ)) => probe.res.ok
    /\ (probe.op = "roundtrip" /\ probe.v \in Consts(probe.typ)) =>
          /\ probe.res.ok
          /\ probe.res.val = probe.v

\* C3 witness: the last model of the list has come back from a round trip.
C3_Witness ==
    /\ probe.op = "roundtrip"
    /\ probe.typ = "Model"
    /\ probe.v = ModelDeepSeekReasoner
    /\ probe.res.ok
    /\ probe.res.val = ModelDeepSeekReasoner

\* the request of the call fails the local validation
FailsValidation ==
    \/ /\ call.kind = "Completion"
       /\ \/ call.req.Model = ""
          \/ Len(call.req.Messages) = 0
          \/ (call.req.MaxTokens > 0 /\ call.req.MaxTokens > TokenLimit(call.req.Model))
    \/ /\ call.kind = "Image"
       /\ call.req.Prompt = ""

\* C4: validation strictly precedes network I/O: when the request of
\* Completion or Image fails local validation (empty model, empty messages,
\* max tokens over the ceiling, empty prompt), the HTTP client executes no
\* request, the server observes none, and the error returned matches
\* ErrRequiredParam.
C4_ValidationBeforeIO ==
    FailsValidation =>
        /\ Returned
        /\ Failed
        /\ Is(result.err, ErrRequiredParam)
        /\ executed = 0
        /\ observed = 0

\* C4 witness: Image with an empty prompt has returned and nothing was sent.
C4_Witness ==
    /\ Returned
    /\ call.kind = "Image"
    /\ call.req.Prompt = ""
    /\ call.params.URL # ":"
    /\ executed = 0
    /\ Is(result.err, ErrRequiredParam)

C6_ErrorDecoder ==
    (Returned /\ "error" \in decoded) =>
        /\ Failed
        /\ Is(result.err, ErrResponse)
        /\ ("status code " \o ToString(resp.StatusCode)) \in result.err.chain
        /\ resp.Body.kind \in {"malformed", "text", "mistyped", "aborted"} =>
              \E m \in result.err.chain :
                  /\ HasPrefix(m, "failed unmarshal error: ")
                  /\ SubSeq(m, Len("failed unmarshal error: ") + 1, Len(m)) \in result.err.chain
        /\ resp.Body.kind = "malformed" => "unexpected EOF" \in result.err.chain

\* C6 witness: a 502 answer whose body is plain text.
C6_Witness ==
    /\ Answered({502}, {"text"})
    /\ "error" \in decoded
    /\ Is(result.err, ErrResponse)
    /\ "status code 502" \in result.err.chain

\* C7: when a non-success response carries a decodable structured error
\* body, the error Completion returns has exactly the message "failed
\* response", newline, "status code <N>", newline, then type, param and code
\* each written as a quoted string (%q) and the message:
\* type="<type>", param="<param>", code="<code>": <message>.
C7_StructuredErrorMessage ==
    (Answered(Statuses \ {200}, {"object"}) /\ call.kind = "Completion") =>
        LET E == resp.Body.error IN
        /\ Failed
        /\ result.err.msg =
              "failed response" \o "\n" \o "status code " \o ToString(resp.StatusCode) \o "\n"
              \o "type=" \o Quote(E.Type) \o ", param=" \o Quote(E.Param)
              \o ", code=" \o Quote(E.Code) \o ": " \o E.Message

\* C7 witness: the 400 answer of TestCompletionFailedWithError and its message.
C7_Witness ==
    /\ Answered({400}, {"object"})
    /\ call.kind = "Completion"
    /\ resp.Body.error.Type = "invalid_request_error"
    /\ result.err.msg =
          "failed response\nstatus code 400\ntype=\"invalid_request_error\", param=\"messages\", code=\"context_length_exceeded\": This model's maximum context length is 4097 tokens."

\* the items of the body the entry point called looks for
Items(body) ==
    IF body.kind # "object" THEN <<>>
    ELSE IF call.kind = "Completion" THEN body.choices ELSE body.data

\* C8: a body of status 200 that decodes structurally but has zero choices
\* (Completion) or zero data entries (Image) is a failure: the call returns
\* no response and an error matching ErrResponse whose message ends with
\* "empty response" ("empty image response" for Image); so every response
\* returned without error has at least one choice or data entry.
C8_EmptyIsFailure ==
    /\ (Answered({200}, {"object", "null"}) /\ Len(Items(resp.Body)) = 0) =>
          /\ Failed
          /\ Is(result.err, ErrResponse)
          /\ HasSuffix(result.err.msg,
                       IF call.kind = "Completion" THEN "empty response"
                       ELSE "empty image response")
    /\ (Returned /\ result.kind = "ok") =>
          Len(IF call.kind = "Completion" THEN result.resp.Choices ELSE result.resp.Data) > 0

\* C9: when a completion body of status 200 is structurally invalid JSON,
\* Completion returns no response and an error whose message starts with
\* "failed to unmarshal response".
C9_CompletionInvalidJSON ==
    (Answered({200}, {"malformed", "text"}) /\ call.kind = "Completion") =>
        /\ Failed
        /\ HasPrefix(result.err.msg, "failed to unmarshal response")

\* C10: when an image body of status 200 is structurally invalid JSON, Image
\* returns no response and an error whose message starts with "failed to
\* unmarshal image response".
C10_ImageInvalidJSON ==
    (Answered({200}, {"malformed", "text"}) /\ call.kind = "Image") =>
        /\ Failed
        /\ HasPrefix(result.err.msg, "failed to unmarshal image response")

\* C10 witness: Image has returned on a body cut short.
C10_Witness ==
    /\ Answered({200}, {"malformed"})
    /\ call.kind = "Image"
    /\ Failed
    /\ result.err.msg = "failed to unmarshal image response: unexpected EOF"

\* the fields of pointer type of a request, or of the literal that denotes it,
\* under their JSON keys
PointerFields(x) ==
    ("temperature" :> x.Temperature) @@ ("top_p" :> x.TopP) @@ ("n" :> x.N) @@
    ("stream" :> x.Stream) @@ ("stop" :> x.Stop) @@
    ("presence_penalty" :> x.PresencePenalty) @@
    ("frequency_penalty" :> x.FrequencyPenalty) @@ ("logit_bias" :> x.LogitBias)

\* the contents of the choices from the i-th on, in order, mark following the
\* content of each choice whose finish reason is "length"
RECURSIVE Decorated(_, _, _)
Decorated(choices, i, mark) ==
    IF i > Len(choices) THEN ""
    ELSE choices[i].Message.Content
         \o (IF choices[i].FinishReason = "length" THEN mark ELSE "")
         \o Decorated(choices, i + 1, mark)

C12_MaxTokensCeiling ==
    (probe.op = "request" /\ probe.req.Model # "" /\ Len(probe.req.Messages) > 0) =>
        LET c == probe.req
            over == c.MaxTokens > 0 /\ c.MaxTokens > TokenLimit(c.Model)
            text == "max tokens limit is " \o ToString(TokenLimit(c.Model))
                    \o ", but gotten " \o ToString(c.MaxTokens)
        IN  /\ over <=> (~probe.res.ok /\ Is(probe.res.err, ErrRequiredParam))
            /\ over => /\ probe.res.err.msg = "required parameter is missing\n" \o text
                       /\ text \in probe.res.err.chain
            /\ c.MaxTokens = 0 => ~Is(probe.res.err, ErrRequiredParam)
            /\ c.MaxTokens = TokenLimit(c.Model) => ~Is(probe.res.err, ErrRequiredParam)

\* C12 witness: gpt-4 with one token more than its ceiling of 8192.
C12_Witness ==
    /\ probe.op = "request"
    /\ probe.req.Model = ModelGPT4
    /\ probe.req.MaxTokens = 8193
    /\ ~probe.res.ok
    /\ probe.res.err.msg =
           "required parameter is missing\nmax tokens limit is 8192, but gotten 8193"

\* the keys of the optional fields a request holds a value for: a non-zero
\* MaxTokens, a non-empty User, a pointer that is not nil
SetKeys(c) ==
    (IF c.MaxTokens # 0 THEN {"max_tokens"} ELSE {})
    \cup (IF c.User # "" THEN {"user"} ELSE {})
    \cup {k \in DOMAIN PointerFields(c) : PointerFields(c)[k] # <<>>}

\* C13: a CompletionRequest that passes validation serializes to a JSON object
\* holding exactly the set fields: "model" and "messages" always, each of
\* max_tokens, user, temperature, top_p, n, stream, stop, presence_penalty,
\* frequency_penalty and logit_bias if and only if it is set, with the value
\* set, and the "name" of a message only when it is not empty; no absent
\* optional field is a key.
C13_ExactlySetFields ==
    (probe.op = "request" /\ probe.res.ok) =>
        LET c == probe.req
            d == probe.res.data
        IN  /\ DOMAIN d = {"model", "messages"} \cup SetKeys(c)
            /\ d["model"] = JSONMarshalString(c.Model)
            /\ Len(d["messages"]) = Len(c.Messages)
            /\ \A i \in 1..Len(c.Messages) :
                  /\ DOMAIN d["messages"][i] =
                        {"role", "content"}
                        \cup (IF c.Messages[i].Name # "" THEN {"name"} ELSE {})
                  /\ d["messages"][i]["content"] = c.Messages[i].Content
                  /\ c.Messages[i].Name # "" => d["messages"][i]["name"] = c.Messages[i].Name
            /\ c.MaxTokens # 0 => d["max_tokens"] = c.MaxTokens
            /\ c.User # "" => d["user"] = c.User
            /\ \A k \in DOMAIN PointerFields(c) :
                  PointerFields(c)[k] # <<>> => d[k] = PointerFields(c)[k][1]

\* C13 witness: the request of the test "with optional": all twelve keys.
C13_Witness ==
    /\ probe.op = "request"
    /\ probe.res.ok
    /\ DOMAIN probe.res.data =
          {"model", "messages", "max_tokens", "user", "temperature", "top_p", "n",
           "stream", "stop", "presence_penalty", "frequency_penalty", "logit_bias"}
    /\ probe.res.data["temperature"] = "0.5"
    /\ probe.res.data["n"] = 10
    /\ probe.res.data["stream"] = TRUE

\* C14 as stated: every optional parameter written in the literal, with its
\* zero value included (temperature 0, n 0, stream false, max tokens 0, user
\* ""), is a key of the serialized form, and only a parameter that is absent
\* from the literal is no key.
C14_Original ==
    (probe.op = "request" /\ probe.res.ok) =>
        LET l == probe.lit
            d == probe.res.data
        IN  /\ l.MaxTokens # <<>> <=> "max_tokens" \in DOMAIN d
            /\ l.User # <<>> <=> "user" \in DOMAIN d
            /\ \A k \in DOMAIN PointerFields(l) :
                  PointerFields(l)[k] # <<>> <=> k \in DOMAIN d

\* C14, amended: for the optional parameters of pointer type (temperature,
\* top_p, n, stream, stop, presence_penalty, frequency_penalty, logit_bias) a
\* parameter written with its zero value is a key of the serialized form, with
\* that zero as its value, and only an absent one is no key; MaxTokens and User
\* are of value type: written as 0 or "" they give the same request as when
\* they are absent, and "max_tokens" / "user" is a key only for a non-zero value.
C14_PresentOrAbsent ==
    (probe.op = "request" /\ probe.res.ok) =>
        LET l == probe.lit
            d == probe.res.data
        IN  /\ \A k \in DOMAIN PointerFields(l) :
                  /\ PointerFields(l)[k] # <<>> <=> k \in DOMAIN d
                  /\ PointerFields(l)[k] # <<>> => d[k] = PointerFields(l)[k][1]
            /\ "max_tokens" \in DOMAIN d <=> (l.MaxTokens # <<>> /\ l.MaxTokens # <<0>>)
            /\ "user" \in DOMAIN d <=> (l.User # <<>> /\ l.User # <<"">>)
            /\ l.MaxTokens = <<0>> =>
                  probe.req = CompletionRequest([l EXCEPT !.MaxTokens = <<>>])
            /\ l.User = <<"">> =>
                  probe.req = CompletionRequest([l EXCEPT !.User = <<>>])

\* C14 witness: temperature 0, n 0, stream false, max tokens 0 and user ""
\* all written in one literal.
C14_Witness ==
    /\ probe.op = "request"
    /\ probe.res.ok
    /\ probe.lit.Temperature = <<"0">>
    /\ probe.lit.N = <<0>>
    /\ probe.lit.Stream = <<FALSE>>
    /\ probe.lit.MaxTokens = <<0>>
    /\ probe.lit.User = <<"">>
    /\ probe.res.data["temperature"] = "0"
    /\ probe.res.data["n"] = 0
    /\ probe.res.data["stream"] = FALSE
    /\ "max_tokens" \notin DOMAIN probe.res.data
    /\ "user" \notin DOMAIN probe.res.data

\* the JSON string token that holds v, for a v that needs no escape
Token(v) == "\"" \o v \o "\""

\* a completion body with at least one choice, the role and the finish reason
\* of every choice being string tokens of the vocabulary
WellFormed(body) ==
    /\ body.kind = "object"
    /\ Len(body.choices) >= 1
    /\ \A i \in 1..Len(body.choices) :
          /\ body.choices[i].role \in {Token(v) : v \in RoleConsts}
          /\ body.choices[i].finish \in {Token(v) : v \in FinishReasonConsts}

\* C15: for a valid CompletionRequest answered by status 200 and a well-formed
\* body with at least one choice, Completion returns a nil error and a response
\* whose id, object, created, choices (same count, same order, same index,
\* message and finish reason) and usage are those of the body, and whose
\* CreatedTs is the instant "created" seconds after the Unix epoch.
C15_EndToEnd ==
    (call.kind = "Completion" /\ Answered({200}, {"object"}) /\ WellFormed(resp.Body)) =>
        LET b == resp.Body
            r == result.resp
        IN  /\ result.kind = "ok"
            /\ result.err = Nil
            /\ r.ID = b.id
            /\ r.Object = b.object
            /\ r.Created = b.created
            /\ Len(r.Choices) = Len(b.choices)
            /\ \A i \in 1..Len(b.choices) :
                  /\ r.Choices[i].Index = b.choices[i].index
                  /\ Token(r.Choices[i].Message.Role) = b.choices[i].role
                  /\ r.Choices[i].Message.Content = b.choices[i].content
                  /\ Token(r.Choices[i].FinishReason) = b.choices[i].finish
            /\ r.Usage = b.usage
            /\ r.CreatedTs = [sec |-> b.created, nsec |-> 0]

\* C15 witness: Completion has returned two choices, a complete one of index
\* 0 and then a truncated one of index 1.
C15_Witness ==
    /\ Returned
    /\ call.kind = "Completion"
    /\ result.kind = "ok"
    /\ probe = NoProbe
    /\ Len(result.resp.Choices) = 2
    /\ result.resp.Choices[1].Index = 0
    /\ result.resp.Choices[1].FinishReason = FinishReasonStop
    /\ result.resp.Choices[2].Index = 1
    /\ result.resp.Choices[2].FinishReason = FinishReasonLength
    /\ result.resp.CreatedTs = [sec |-> 1677652288, nsec |-> 0]

\* C16: every request CompletionRequest.build or ImageRequest.build returns
\* has the method POST and the URL Params.URL, and carries the headers
\* "Content-Type: application/json" and "Authorization: Bearer <Params.Bearer>";
\* it carries "OpenAI-Organization: <Params.Organization>" if and only if
\* Params.Organization is not empty.
C16_OutboundRequest ==
    httpReq # NoRequest =>
        LET h == httpReq.header
            auth == call.params
        IN  /\ httpReq.method = "POST"
            /\ httpReq.url = auth.URL
            /\ HeaderGet(h, "Content-Type") = "application/json"
            /\ HeaderGet(h, "Authorization") = "Bearer " \o auth.Bearer
            /\ auth.Organization # "" <=>
                  CanonicalMIMEHeaderKey("OpenAI-Organization") \in DOMAIN h
            /\ auth.Organization # "" =>
                  HeaderGet(h, "OpenAI-Organization") = auth.Organization
            /\ DOMAIN h \subseteq {CanonicalMIMEHeaderKey(k) :
                                      k \in {"Content-Type", "Authorization",
                                             "OpenAI-Organization"}}

\* C16 witness: the request of an Image call with an organization is on its way.
C16_Witness ==
    /\ pc = "inflight"
    /\ call.kind = "Image"
    /\ httpReq.method = "POST"
    /\ HeaderGet(httpReq.header, "Authorization") = "Bearer test"
    /\ HeaderGet(httpReq.header, "OpenAI-Organization") = "test-org"

\* C17: whenever the HTTP client returned a response, its body has been
\* closed by the time Completion or Image returns, on every exit path: a
\* status other than success with a decodable or with a malformed error body,
\* success with a decoded, a malformed or an empty result, and a body whose
\* read is cut by the cancellation of the context.
C17_BodyClosed ==
    (Returned /\ resp.kind = "resp") => closed >= 1

\* C17 witness: the read of a body of status 200 was cut by the cancellation
\* of the context, the call has failed and the body is closed.
C17_Witness ==
    /\ Answered({200}, {"aborted"})
    /\ Failed
    /\ closed = 1

\* the build of the request of the call succeeds: validation and construction
BuildSucceeds ==
    \/ call.kind = "Completion" /\ CompletionRequestBuild(call.req, call.params).ok
    \/ call.kind = "Image" /\ ImageRequestBuild(call.req, call.params).ok

\* C18: a call of Completion or Image executes at most one HTTP request, and
\* exactly one when validation and construction of the request succeed; no
\* outcome (transport failure, status other than success, malformed or empty
\* body) brings a second request: the count stays at one up to the return.
C18_OneRequest ==
    /\ executed <= 1
    /\ observed <= executed
    /\ (pc # "idle" /\ BuildSucceeds) => executed = 1

\* C18 witness: the transport failed and the call has returned after its one
\* request.
C18_Witness ==
    /\ Returned
    /\ resp.kind = "fail"
    /\ executed = 1
    /\ observed = 0
    /\ Failed

\* a request for a model for image generation, with messages, asking for tokens
ImageModelWithTokens ==
    /\ probe.op = "request"
    /\ probe.req.Model \in {ModelDalle2, ModelDalle3}
    /\ Len(probe.req.Messages) > 0
    /\ probe.req.MaxTokens > 0

\* C19 as stated: a CompletionRequest whose Model is a model for image
\* generation (dall-e-2, dall-e-3), with messages and any MaxTokens > 0, does
\* not fail the check of the token ceiling.
C19_Original ==
    ImageModelWithTokens => ~(~probe.res.ok /\ Is(probe.res.err, ErrRequiredParam))

\* C19, amended: the models for image generation have no entry in TokenLimits,
\* so their ceiling is 0: a CompletionRequest for dall-e-2 or dall-e-3 with
\* messages and any MaxTokens > 0 fails the check of the ceiling with an error
\* matching ErrRequiredParam and the message "max tokens limit is 0, but gotten
\* <MaxTokens>"; only MaxTokens = 0 passes the check.
C19_ImageModelCeiling ==
    /\ ImageModelWithTokens =>
          /\ ~probe.res.ok
          /\ Is(probe.res.err, ErrRequiredParam)
          /\ probe.res.err.msg =
                "required parameter is missing\nmax tokens limit is 0, but gotten "
                \o ToString(probe.req.MaxTokens)
    /\ (/\ probe.op = "request"
        /\ probe.req.Model \in {ModelDalle2, ModelDalle3}
        /\ Len(probe.req.Messages) > 0
        /\ probe.req.MaxTokens = 0) => probe.res.ok

\* C19 witness: dall-e-3 asked for one token is refused.
C19_Witness ==
    /\ probe.op = "request"
    /\ probe.req.Model = ModelDalle3
    /\ probe.req.MaxTokens = 1
    /\ probe.res.err.msg =
           "required parameter is missing\nmax tokens limit is 0, but gotten 1"

\* C20: every value Model.MarshalJSON or Model.UnmarshalJSON accepts is a key
\* of TokenLimits or a member of imageModels.
C20_TableConsistency ==
    /\ (probe.op \in {"marshal", "roundtrip"} /\ probe.typ = "Model" /\ probe.res.ok) =>
          (probe.v \in DOMAIN TokenLimits \/ probe.v \in imageModels)
    /\ (probe.op \in {"unmarshal", "roundtrip"} /\ probe.typ = "Model" /\ probe.res.ok) =>
          (probe.res.val \in DOMAIN TokenLimits \/ probe.res.val \in imageModels)

\* C20 witness: UnmarshalJSON has accepted dall-e-3, which has no token limit
\* and is a model for image generation.
C20_Witness ==
    /\ probe.op = "unmarshal"
    /\ probe.typ = "Model"
    /\ probe.res.ok
    /\ probe.res.val = ModelDalle3
    /\ ModelDalle3 \notin DOMAIN TokenLimits

\* the lines "<i><sep><url>" of the data entries from the i-th on, each ended
\* by a newline
RECURSIVE Numbered(_, _, _)
Numbered(data, i, sep) ==
    IF i > Len(data) THEN ""
    ELSE ToString(i) \o sep \o data[i].URL \o "\n" \o Numbered(data, i + 1, sep)

\* C21: ImageResponse.String() returns, for the data entries u1..un in order,
\* the concatenation over i = 1..n of "<i>: <ui>" and a newline (index from
\* 1, colon, space, URL), and the empty string when there is no data entry.
C21_ImageString ==
    probe.op = "ImageString" =>
        /\ probe.out = Numbered(probe.ir.Data, 1, ": ")
        /\ Len(probe.ir.Data) = 0 => probe.out = ""

\* C22: UsageInfo() returns exactly "prompt tokens: <p>, completion tokens:
\* <c>, total tokens: <t>" for the usage counts p, c, t of the body, t as it
\* was received: a body whose total differs from p + c decodes successfully
\* and is reported unchanged.
C22_UsageInfo ==
    probe.op = "UsageInfo" =>
        /\ result.kind = "ok"
        /\ result.resp.Usage = resp.Body.usage
        /\ probe.out = "prompt tokens: " \o ToString(resp.Body.usage.PromptTokens)
                       \o ", completion tokens: "
                       \o ToString(resp.Body.usage.CompletionTokens)
                       \o ", total tokens: " \o ToString(resp.Body.usage.TotalTokens)

\* C22 witness: a body that reports 4 + 6 tokens as a total of 11.
C22_Witness ==
    /\ probe.op = "UsageInfo"
    /\ resp.Body.usage.TotalTokens = 11
    /\ probe.out = "prompt tokens: 4, completion tokens: 6, total tokens: 11"

\* C23: when client.Do fails (connection refused, context cancelled),
\* Completion and Image return no response and one error that wraps the cause
\* with the context "failed to send request": the cause stays in the chain,
\* the error matches neither ErrRequiredParam nor ErrResponse, and neither the
\* response decoder nor the error decoder has run.
C23_TransportFailure ==
    (Returned /\ resp.kind = "fail") =>
        /\ Failed
        /\ result.err.msg = "failed to send request: " \o resp.err.msg
        /\ resp.err.chain \subseteq result.err.chain
        /\ resp.err.is \subseteq result.err.is
        /\ \E cause \in TransportCauses :
              cause.chain \subseteq result.err.chain /\ cause.is \subseteq result.err.is
        /\ ~Is(result.err, ErrRequiredParam)
        /\ ~Is(result.err, ErrResponse)
        /\ decoded = {}
        /\ closed = 0

\* C23 witness: Image has returned after the context was cancelled during
\* client.Do, and the error still matches context.Canceled.
C23_Witness ==
    /\ Returned
    /\ call.kind = "Image"
    /\ resp.kind = "fail"
    /\ Is(result.err, Sentinel("context.Canceled", "context canceled"))
    /\ result.err.msg = "failed to send request: Post \"http://srv/v1\": context canceled"

\* the call is an Image call whose request was built and handed to the client
ImageSent == call.kind = "Image" /\ httpReq # NoRequest /\ executed = 1

\* C24 as stated: every body ImageRequest.marshal produces either has no
\* "size" or has one of 256x256, 512x512, 1024x1024: an ImageRequest with any
\* other non-empty Size is never serialized and sent.
C24_Original ==
    /\ ImageSent =>
          ("size" \notin DOMAIN httpReq.body \/ httpReq.body["size"] \in ImageSizeConsts)
    /\ (call.kind = "Image" /\ pc # "idle"
        /\ call.req.Size \notin ImageSizeConsts \cup {""}) => executed = 0

\* C24, amended: ImageRequest.marshal checks the prompt only; the body has
\* "size" if and only if Size is not empty, and its value is Size as given,
\* one of the three constants or not: an ImageRequest with a prompt and any
\* other non-empty Size is serialized and sent.
C24_SizeAsGiven ==
    /\ ImageSent =>
          /\ "size" \in DOMAIN httpReq.body <=> call.req.Size # ""
          /\ call.req.Size # "" => httpReq.body["size"] = call.req.Size
    /\ (call.kind = "Image" /\ pc # "idle" /\ call.req.Prompt # ""
        /\ call.params.URL # ":") => ImageSent

\* C24 witness: a request for the size 64x64 is on its way to the server.
C24_Witness ==
    /\ pc = "inflight"
    /\ ImageSent
    /\ call.req.Size = "64x64"
    /\ httpReq.body["size"] = "64x64"

\* C25: the "messages" array of a serialized CompletionRequest has the length
\* of the request's Messages and its i-th element carries the role, content
\* and name of the i-th Message, for every i; and the decoded Choices keep the
\* order of the "choices" array of the body.
C25_OrderPreserved ==
    /\ (call.kind = "Completion" /\ httpReq # NoRequest) =>
          LET msgs == call.req.Messages
              sent == httpReq.body["messages"]
          IN  /\ Len(sent) = Len(msgs)
              /\ \A i \in 1..Len(msgs) :
                    /\ sent[i]["role"] = Token(msgs[i].Role)
                    /\ sent[i]["content"] = msgs[i].Content
                    /\ IF msgs[i].Name = "" THEN "name" \notin DOMAIN sent[i]
                       ELSE sent[i]["name"] = msgs[i].Name
    /\ (call.kind = "Completion" /\ Returned /\ result.kind = "ok") =>
          /\ Len(result.resp.Choices) = Len(resp.Body.choices)
          /\ \A i \in 1..Len(resp.Body.choices) :
                /\ result.resp.Choices[i].Index = resp.Body.choices[i].index
                /\ result.resp.Choices[i].Message.Content = resp.Body.choices[i].content

\* C25 witness: the message of user bob, then the system message, are on the
\* wire in that order.
C25_Witness ==
    /\ pc = "inflight"
    /\ call.kind = "Completion"
    /\ Len(call.req.Messages) = 2
    /\ call.req.Messages[1].Role = RoleUser
    /\ call.req.Messages[2].Role = RoleSystem
    /\ httpReq.body["messages"][1]["name"] = "bob"
    /\ httpReq.body["messages"][2]["role"] = "\"system\""

\* C26: a CompletionRequest whose Model is not empty and outside the list of
\* Model constants never reaches the network: whatever its messages and
\* MaxTokens, building the request fails locally with an error and the HTTP
\* client executes no request.
C26_UnknownModelStaysLocal ==
    (call.kind = "Completion" /\ call.req.Model # "" /\ call.req.Model \notin ModelConsts) =>
        /\ Returned
        /\ Failed
        /\ httpReq = NoRequest
        /\ executed = 0
        /\ observed = 0
        /\ resp = NoResp

\* C26 witness: gpt-5 with messages and no MaxTokens passes the three checks
\* of marshal and is refused by Model.MarshalJSON inside json.Marshal.
C26_Witness ==
    /\ Returned
    /\ call.kind = "Completion"
    /\ call.req.Model = "gpt-5"
    /\ call.req.MaxTokens = 0
    /\ Len(call.req.Messages) > 0
    /\ executed = 0
    /\ Is(result.err, ErrMarshalJSON)
    /\ HasPrefix(result.err.msg, "failed to marshal request: ")

\* C28: in every CompletionResponse returned without error, the role of the
\* message of every choice is one of system, user, assistant and the finish
\* reason of every choice is one of length, stop, for every body of status
\* 200, those in which a choice omits "finish_reason" or "role" or gives it
\* as null included.
C28_ReturnedVocabulary ==
    (call.kind = "Completion" /\ Returned /\ result.kind = "ok") =>
        \A i \in 1..Len(result.resp.Choices) :
            /\ result.resp.Choices[i].Message.Role \in RoleConsts
            /\ result.resp.Choices[i].FinishReason \in FinishReasonConsts

\* C29: Completion and Image return exactly one of a result and an error on
\* every path: a response with a nil error, or a nil response with an error
\* that is not nil.
C29_ResultOrError ==
    Returned =>
        \/ result.kind = "ok" /\ result.resp # NilResponse /\ result.err = Nil
        \/ result.kind = "err" /\ result.resp = NilResponse /\ result.err # Nil

\* C30: the body of a received response is closed exactly once, never twice:
\* for a status other than 200 commonRequest returns no body and only the
\* error decoder has closed it; for status 200 only the deferred Close of the
\* entry point closes it; without a response nothing is closed.
C30_ClosedOnce ==
    /\ closed <= 1
    /\ (Returned /\ resp.kind = "resp") =>
          /\ closed = 1
          /\ resp.StatusCode # StatusOK => (~common.body /\ decoded = {"error"})
          /\ resp.StatusCode = StatusOK => (common.body /\ decoded = {"success"})
    /\ (Returned /\ resp.kind # "resp") => closed = 0

\* C30 witness: a 400 answer with a structured error: the error decoder closed
\* the body and the entry point got no body to close.
C30_Witness ==
    /\ Answered({400}, {"object"})
    /\ resp.Body.error # ZeroErrorInfo
    /\ ~common.body
    /\ closed = 1

\* what a call returns when it runs alone: Completion / Image as one function
\* of the request, the Params and what client.Do returns for the request
Outcome(in, r) ==
    LET b == Build(in)
        c == commonRequestBranch(r)
        built == ResponseBuild(in, r.Body)
    IN  IF ~b.ok THEN [kind |-> "err", resp |-> NilResponse, err |-> b.err]
        ELSE IF ~c.body THEN [kind |-> "err", resp |-> NilResponse, err |-> c.err]
        ELSE IF built.kind = "ok" THEN built
        ELSE [kind |-> built.kind, resp |-> NilResponse, err |-> built.err]

\* the one call of Spec returns what Outcome says
OutcomeIsSolo == Returned => result = Outcome(call, resp)

\* the parameters and local variables of call i
CallState(i) ==
    <<pc[i], call[i], httpReq[i], executed[i], observed[i], resp[i], common[i],
      decoded[i], closed[i], result[i]>>

====
